---- MODULE Spec2Model ----
(***************************************************************************)
(* Gobblet Gobblers: the move engine (gobblet/state.py, gobblet/moves.py,  *)
(* solver/fast_move.py), the position encoding (solver/encoding.py), the   *)
(* iterative minimax solver (solver/minimax.py) and the frontier BFS       *)
(* (solver/collect_positions.py).                                          *)
(***************************************************************************)
EXTENDS Integers, Sequences, FiniteSets, TLC

\* Python's None where an object is expected (a piece, a position, a frame,
\* an undo record): the empty tuple, which is none of them.
None == <<>>
\* Python's None where a Player or a Size is expected (both are 1-based).
NoPlayer == 0
NoSize == 0
NoError == "none"

(* ---------- gobblet/types.py ---------- *)

ONE == 1
TWO == 2
Player == {ONE, TWO}

SMALL == 1
MEDIUM == 2
LARGE == 3
Size == <<SMALL, MEDIUM, LARGE>>

STARTING_PIECES == 2

opponent(player) == IF player = ONE THEN TWO ELSE ONE

size_can_gobble(self, other) == self > other

Piece(player, size) == [player |-> player, size |-> size]

can_gobble(self, other) == size_can_gobble(self.size, other.size)

(* ---------- gobblet/state.py ---------- *)

all_positions ==
    << <<0, 0>>, <<0, 1>>, <<0, 2>>,
       <<1, 0>>, <<1, 1>>, <<1, 2>>,
       <<2, 0>>, <<2, 1>>, <<2, 2>> >>

Positions == {all_positions[i] : i \in 1..Len(all_positions)}

WINNING_LINES ==
    << << <<0, 0>>, <<0, 1>>, <<0, 2>> >>,
       << <<1, 0>>, <<1, 1>>, <<1, 2>> >>,
       << <<2, 0>>, <<2, 1>>, <<2, 2>> >>,
       << <<0, 0>>, <<1, 0>>, <<2, 0>> >>,
       << <<0, 1>>, <<1, 1>>, <<2, 1>> >>,
       << <<0, 2>>, <<1, 2>>, <<2, 2>> >>,
       << <<0, 0>>, <<1, 1>>, <<2, 2>> >>,
       << <<0, 2>>, <<1, 1>>, <<2, 0>> >> >>

\* GameState.__init__: empty board, STARTING_PIECES of every size in each
\* reserve, Player.ONE to move, no position recorded.
GameState ==
    [board |-> [pos \in Positions |-> <<>>],
     reserves |-> [p \in Player |-> [s \in {SMALL, MEDIUM, LARGE} |-> STARTING_PIECES]],
     current_player |-> ONE,
     position_history |-> <<>>]

get_stack(state, pos) == state.board[pos]

get_top(state, pos) ==
    LET stack == get_stack(state, pos)
    IN  IF Len(stack) = 0 THEN None ELSE stack[Len(stack)]

has_reserve_always(state, player, size) == TRUE

has_reserve(state, player, size) == state.reserves[player][size] > 0

place_piece(state, piece, pos) ==
    [state EXCEPT !.board[pos] = Append(@, piece)]

remove_top(state, pos) ==
    [state EXCEPT !.board[pos] = SubSeq(@, 1, Len(@) - 1)]

\* A reserve that is never drawn down.
use_reserve_keeps(state, player, size) == state

use_reserve(state, player, size) ==
    [state EXCEPT !.reserves[player][size] = @ - 1]

\* board_hash: the hash of the stacks and the side to move, taken as the
\* pair itself (two different positions are taken to hash differently).
board_hash(state) == << state.board, state.current_player >>

record_position(state) ==
    [state EXCEPT !.position_history = Append(@, board_hash(state))]

is_threefold_repetition(state) ==
    Cardinality({i \in 1..Len(state.position_history) :
        state.position_history[i] = board_hash(state)}) >= 3

\* True when the three tops of the line are present and owned by player.
LineOwnedBy(state, line, player) ==
    \A i \in 1..3 :
        /\ get_top(state, line[i]) # None
        /\ get_top(state, line[i]).player = player

\* check_winner: the owner of the first line, in WINNING_LINES order, whose
\* three tops belong to one player; NoPlayer when there is none.
check_winner(state) ==
    LET full == {i \in 1..Len(WINNING_LINES) :
                    \E p \in Player : LineOwnedBy(state, WINNING_LINES[i], p)}
    IN  IF full = {} THEN NoPlayer
        ELSE LET first == CHOOSE i \in full : \A j \in full : i <= j
             IN  get_top(state, WINNING_LINES[first][1]).player

get_winning_lines(state, player) ==
    LET Owned(line) == LineOwnedBy(state, line, player)
    IN  SelectSeq(WINNING_LINES, Owned)

(* ---------- gobblet/moves.py ---------- *)

Move(player, to_pos, from_pos, size) ==
    [player |-> player, to_pos |-> to_pos, from_pos |-> from_pos, size |-> size]

is_from_reserve(move) == move.from_pos = None

\* A placement rule that also accepts a top of the same size.
can_place_equal(piece, pos, state) ==
    LET top == get_top(state, pos)
    IN  IF top = None THEN TRUE ELSE piece.size >= top.size

can_place_at(piece, pos, state) ==
    LET top == get_top(state, pos)
    IN  IF top = None THEN TRUE ELSE can_gobble(piece, top)

\* Concatenation of the sequences f[1], ..., f[n].
RECURSIVE ConcatTo(_, _)
ConcatTo(f, n) == IF n = 0 THEN <<>> ELSE ConcatTo(f, n - 1) \o f[n]

\* Placements from reserve: for size in Size, for pos in all_positions.
reserve_moves(state) ==
    LET player == state.current_player
        PlacesOf(size) ==
            IF has_reserve(state, player, size)
            THEN LET Fits(pos) == can_place_at(Piece(player, size), pos, state)
                     cells == SelectSeq(all_positions, Fits)
                 IN  [i \in 1..Len(cells) |-> Move(player, cells[i], None, size)]
            ELSE <<>>
    IN  ConcatTo([k \in 1..Len(Size) |-> PlacesOf(Size[k])], Len(Size))

\* Targets that need not lie in a revealed line.
valid_targets_off_line(state_after_lift, top, from_pos, opponent_winning_lines) ==
    {pos \in Positions :
        /\ pos # from_pos
        /\ \/ get_top(state_after_lift, pos) = None
           \/ can_gobble(top, get_top(state_after_lift, pos))}

\* The cells of valid_targets: members of a revealed line other than the
\* origin whose top the lifted piece can gobble.
valid_targets(state_after_lift, top, from_pos, opponent_winning_lines) ==
    {pos \in Positions :
        /\ \E k \in 1..Len(opponent_winning_lines) :
              \E i \in 1..3 : opponent_winning_lines[k][i] = pos
        /\ pos # from_pos
        /\ get_top(state_after_lift, pos) # None
        /\ can_gobble(top, get_top(state_after_lift, pos))}

\* valid_targets is a hash set of (row, col) tuples and is iterated in the
\* order of its hash slots: (0,1) (1,0) (1,1) (0,2) (1,2) (2,0) (2,1) (2,2)
\* (0,0).  For the targets of one revealed line (at most two cells) this is
\* the iteration order of the interpreter.
hash_order ==
    << <<0, 1>>, <<1, 0>>, <<1, 1>>, <<0, 2>>, <<1, 2>>,
       <<2, 0>>, <<2, 1>>, <<2, 2>>, <<0, 0>> >>

\* Slides of the top piece at from_pos, with the reveal rule.
board_moves_from(state, from_pos) ==
    LET player == state.current_player
        top == get_top(state, from_pos)
    IN  IF top = None \/ top.player # player THEN <<>>
        ELSE LET state_after_lift == remove_top(state, from_pos)
                 opponent_winning_lines ==
                     get_winning_lines(state_after_lift, opponent(player))
                 targets == valid_targets(state_after_lift, top, from_pos,
                                          opponent_winning_lines)
                 InTargets(pos) == pos \in targets
                 Free(pos) == from_pos # pos /\ can_place_at(top, pos, state)
                 cells == IF Len(opponent_winning_lines) > 0
                          THEN SelectSeq(hash_order, InTargets)
                          ELSE SelectSeq(all_positions, Free)
             IN  [i \in 1..Len(cells) |-> Move(player, cells[i], from_pos, NoSize)]

generate_moves_with_reveal_check(state) ==
    reserve_moves(state)
    \o ConcatTo([k \in 1..Len(all_positions) |->
                    board_moves_from(state, all_positions[k])],
                Len(all_positions))

generate_moves(state) == generate_moves_with_reveal_check(state)

\* The basic moves, without the reveal rule (check_reveal = False).
generate_basic_moves(state) ==
    LET player == state.current_player
        SlidesFrom(from_pos) ==
            LET top == get_top(state, from_pos)
                Free(pos) == from_pos # pos /\ can_place_at(top, pos, state)
                cells == SelectSeq(all_positions, Free)
            IN  IF top = None \/ top.player # player THEN <<>>
                ELSE [i \in 1..Len(cells) |-> Move(player, cells[i], from_pos, NoSize)]
    IN  reserve_moves(state)
        \o ConcatTo([k \in 1..Len(all_positions) |-> SlidesFrom(all_positions[k])],
                    Len(all_positions))

\* A notation is held as its parsed characters: << "S", r, c >> for
\* "S(r,c)" and << r1, c1, r2, c2 >> for "(r1,c1)->(r2,c2)", the digits
\* being 0..9; any other text is << "?" >>.
size_chars == << "S", "M", "L" >>

move_to_notation(move) ==
    IF is_from_reserve(move)
    THEN << size_chars[move.size], move.to_pos[1], move.to_pos[2] >>
    ELSE << move.from_pos[1], move.from_pos[2], move.to_pos[1], move.to_pos[2] >>

\* notation_to_move: the Move, or None for the ValueError of a text that
\* does not match or names a row or column above 2.
notation_to_move(notation, player) ==
    IF Len(notation) = 3
    THEN IF notation[2] <= 2 /\ notation[3] <= 2
         THEN Move(player, << notation[2], notation[3] >>, None,
                   CHOOSE size \in 1..3 : size_chars[size] = notation[1])
         ELSE None
    ELSE IF Len(notation) = 4
    THEN IF \A i \in 1..4 : notation[i] <= 2
         THEN Move(player, << notation[3], notation[4] >>,
                   << notation[1], notation[2] >>, NoSize)
         ELSE None
    ELSE None

(* ---------- gobblet/game.py: GameResult ---------- *)

ONGOING == "ongoing"
PLAYER_ONE_WINS == "player_one_wins"
PLAYER_TWO_WINS == "player_two_wins"
DRAW_RESULT == "draw"

winner(player) == IF player = ONE THEN PLAYER_ONE_WINS ELSE PLAYER_TWO_WINS

(* ---------- gobblet/game.py: Game ---------- *)

\* Game.__init__.
Game(state) == [state |-> state, result |-> ONGOING, move_history |-> <<>>]

\* Game.get_legal_moves.
get_legal_moves(g) ==
    IF g.result # ONGOING THEN <<>> ELSE generate_moves(g.state)

MoveResult(new_state, game_result, revealed_loss) ==
    [new_state |-> new_state, game_result |-> game_result,
     revealed_loss |-> revealed_loss]

\* Game.apply_move, the reveal test: some revealed line holds the
\* destination and the lifted piece gobbles its top.
reveal_saved(lifted, move, piece, opponent_winning_lines) ==
    \E k \in 1..Len(opponent_winning_lines) :
        /\ \E i \in 1..3 : opponent_winning_lines[k][i] = move.to_pos
        /\ get_top(lifted, move.to_pos) # None
        /\ can_gobble(piece, get_top(lifted, move.to_pos))

\* Game.apply_move once the piece is on the board: the position is
\* recorded, then a winner or a threefold repetition ends the game,
\* otherwise the opponent is to move.
complete_move(g, placed, move, player) ==
    LET new_state == record_position(placed)
        w == check_winner(new_state)
    IN  IF w # NoPlayer
        THEN [game |-> [state |-> new_state, result |-> winner(w),
                        move_history |-> Append(g.move_history, move)],
              result |-> MoveResult(new_state, winner(w), FALSE),
              error |-> NoError]
        ELSE IF is_threefold_repetition(new_state)
        THEN [game |-> [state |-> new_state, result |-> DRAW_RESULT,
                        move_history |-> Append(g.move_history, move)],
              result |-> MoveResult(new_state, DRAW_RESULT, FALSE),
              error |-> NoError]
        ELSE LET switched == [new_state EXCEPT
                                 !.current_player = opponent(player)]
             IN  [game |-> [state |-> switched, result |-> ONGOING,
                            move_history |-> Append(g.move_history, move)],
                  result |-> MoveResult(switched, ONGOING, FALSE),
                  error |-> NoError]

\* Game.apply_move: the Game afterwards and the MoveResult, or the
\* ValueError of a game that is over.
apply_move(g, move) ==
    IF g.result # ONGOING
    THEN [game |-> g, result |-> None, error |-> "ValueError"]
    ELSE LET player == g.state.current_player
         IN  IF is_from_reserve(move)
             THEN complete_move(g,
                      place_piece(use_reserve(g.state, player, move.size),
                                  Piece(player, move.size), move.to_pos),
                      move, player)
             ELSE LET piece == get_top(g.state, move.from_pos)
                      lifted == remove_top(g.state, move.from_pos)
                      opponent_winning_lines ==
                          get_winning_lines(lifted, opponent(player))
                  IN  IF /\ Len(opponent_winning_lines) > 0
                         /\ ~reveal_saved(lifted, move, piece,
                                          opponent_winning_lines)
                      THEN [game |-> [g EXCEPT
                                !.state = lifted,
                                !.result = winner(opponent(player))],
                            result |-> MoveResult(lifted,
                                          winner(opponent(player)), TRUE),
                            error |-> NoError]
                      ELSE complete_move(g,
                               place_piece(lifted, piece, move.to_pos),
                               move, player)

\* play_move: Game(state.copy()).apply_move(move) as (new_state, result).
play_move(state, move) ==
    LET done == apply_move(Game(state), move)
    IN  << done.result.new_state, done.result.game_result >>

(* ---------- solver/fast_move.py ---------- *)

UndoInfo(move, piece, move_completed, player_switched) ==
    [move |-> move, piece |-> piece, move_completed |-> move_completed,
     player_switched |-> player_switched]

\* can_save: the destination lies in a revealed line and its top can be
\* gobbled by the lifted piece (the loop breaks at the first such line).
can_save(lifted, move, piece, opponent_winning_lines) ==
    \E k \in 1..Len(opponent_winning_lines) :
        /\ \E i \in 1..3 : opponent_winning_lines[k][i] = move.to_pos
        /\ get_top(lifted, move.to_pos) # None
        /\ can_gobble(piece, get_top(lifted, move.to_pos))

\* A finish that hands the move to the opponent also when the game is won.
finish_move_always_switches(placed, move, piece, player) ==
    LET w == check_winner(placed)
    IN  [state |-> [placed EXCEPT !.current_player = opponent(player)],
         result |-> IF w # NoPlayer THEN winner(w) ELSE ONGOING,
         undo |-> UndoInfo(move, piece, TRUE, TRUE)]

\* A finish that never hands the move to the opponent.
finish_move_keeps_player(placed, move, piece, player) ==
    LET w == check_winner(placed)
    IN  [state |-> placed,
         result |-> IF w # NoPlayer THEN winner(w) ELSE ONGOING,
         undo |-> UndoInfo(move, piece, TRUE, FALSE)]

\* After the piece is on the board: a winner ends the game without
\* switching the player, otherwise the opponent is to move.
finish_move(placed, move, piece, player) ==
    LET w == check_winner(placed)
    IN  IF w # NoPlayer
        THEN [state |-> placed, result |-> winner(w),
              undo |-> UndoInfo(move, piece, TRUE, FALSE)]
        ELSE [state |-> [placed EXCEPT !.current_player = opponent(player)],
              result |-> ONGOING,
              undo |-> UndoInfo(move, piece, TRUE, TRUE)]

\* apply_move_in_place: the mutated state, the GameResult and the UndoInfo.
apply_move_in_place(state, move) ==
    LET player == state.current_player
    IN  IF is_from_reserve(move)
        THEN LET piece == Piece(player, move.size)
                 placed == place_piece(use_reserve(state, player, move.size),
                                       piece, move.to_pos)
             IN  finish_move(placed, move, piece, player)
        ELSE LET piece == get_top(state, move.from_pos)
                 lifted == remove_top(state, move.from_pos)
                 opponent_winning_lines ==
                     get_winning_lines(lifted, opponent(player))
             IN  IF /\ Len(opponent_winning_lines) > 0
                    /\ ~can_save(lifted, move, piece, opponent_winning_lines)
                 THEN [state |-> lifted, result |-> winner(opponent(player)),
                       undo |-> UndoInfo(move, piece, FALSE, FALSE)]
                 ELSE finish_move(place_piece(lifted, piece, move.to_pos),
                                  move, piece, player)

\* An undo that puts the piece back but forgets the side to move.
undo_keeps_player(state, undo) ==
    LET move == undo.move
        piece == undo.piece
    IN  IF ~undo.move_completed
        THEN place_piece(state, piece, move.from_pos)
        ELSE IF is_from_reserve(move)
        THEN [remove_top(state, move.to_pos)
                 EXCEPT !.reserves[piece.player][piece.size] = @ + 1]
        ELSE place_piece(remove_top(state, move.to_pos), piece, move.from_pos)

undo_move_in_place(state, undo) ==
    LET move == undo.move
        piece == undo.piece
        s1 == IF undo.player_switched
              THEN [state EXCEPT !.current_player = opponent(state.current_player)]
              ELSE state
    IN  IF ~undo.move_completed
        THEN place_piece(s1, piece, move.from_pos)
        ELSE IF is_from_reserve(move)
        THEN [remove_top(s1, move.to_pos)
                 EXCEPT !.reserves[piece.player][piece.size] = @ + 1]
        ELSE place_piece(remove_top(s1, move.to_pos), piece, move.from_pos)

(* ---------- solver/encoding.py ---------- *)

\* A 64-bit encoded value is held as its eleven 6-bit groups, least
\* significant first: group k (1..9) is cell k-1 in row-major order (bits
\* 6(k-1) .. 6k-1), group 10 is bits 54..59 (bit 54 the player to move) and
\* group 11 is bits 60..63.
\* Owner of the slot of a size in a stack: the player of the last piece of
\* that size, 0 when there is none.
slot_owner(stack, size) ==
    LET at == {i \in 1..Len(stack) : stack[i].size = size}
    IN  IF at = {} THEN 0
        ELSE stack[CHOOSE i \in at : \A j \in at : j <= i].player

encode_state(state) ==
    [k \in 1..11 |->
        IF k <= 9
        THEN LET stack == get_stack(state, all_positions[k])
             IN  slot_owner(stack, SMALL) + 4 * slot_owner(stack, MEDIUM)
                 + 16 * slot_owner(stack, LARGE)
        ELSE IF k = 10
        THEN (IF state.current_player = ONE THEN 0 ELSE 1)
        ELSE 0]

\* The pieces a 6-bit cell group decodes to, bottom first: small, medium,
\* large, each when its 2-bit owner is not 0.
decode_cell(cell_bits) ==
    LET small_owner == cell_bits % 4
        medium_owner == (cell_bits \div 4) % 4
        large_owner == (cell_bits \div 16) % 4
    IN  (IF small_owner # 0 THEN << Piece(small_owner, SMALL) >> ELSE <<>>)
        \o (IF medium_owner # 0 THEN << Piece(medium_owner, MEDIUM) >> ELSE <<>>)
        \o (IF large_owner # 0 THEN << Piece(large_owner, LARGE) >> ELSE <<>>)

\* Player(owner) raises ValueError for an owner that is neither 1 nor 2.
slots_valid(cell_bits) ==
    /\ cell_bits % 4 # 3
    /\ (cell_bits \div 4) % 4 # 3
    /\ (cell_bits \div 16) % 4 # 3

\* _reserves[(player, size)] -= 1 for every decoded piece, starting from
\* STARTING_PIECES; nothing keeps the count from going below 0.
decoded_reserves(board) ==
    [p \in Player |-> [s \in {SMALL, MEDIUM, LARGE} |->
        STARTING_PIECES
        - Cardinality({pos \in Positions :
              \E i \in 1..Len(board[pos]) : board[pos][i] = Piece(p, s)})]]

\* A decode that leaves the reserves of GameState() as they are.
decode_full_reserves(encoded) ==
    [error |-> NoError,
     state |-> [board |-> [pos \in Positions |->
                    decode_cell(encoded[CHOOSE k \in 1..9 : all_positions[k] = pos])],
                reserves |-> GameState.reserves,
                current_player |-> IF encoded[10] % 2 = 0 THEN ONE ELSE TWO,
                position_history |-> <<>>]]

\* decode_state: the GameState, or the exception it ends with.  Only bit
\* 54 is read above the cells.
decode_state(encoded) ==
    IF \E k \in 1..9 : ~slots_valid(encoded[k])
    THEN [error |-> "ValueError", state |-> None]
    ELSE LET board == [pos \in Positions |->
                 decode_cell(encoded[CHOOSE k \in 1..9 : all_positions[k] = pos])]
         IN  [error |-> NoError,
              state |-> [board |-> board,
                         reserves |-> decoded_reserves(board),
                         current_player |->
                             IF encoded[10] % 2 = 0 THEN ONE ELSE TWO,
                         position_history |-> <<>>]]

\* Numeric order of two encoded values: the most significant differing group
\* decides.
encoded_less(a, b) ==
    \E k \in 1..11 :
        /\ a[k] < b[k]
        /\ \A j \in (k + 1)..11 : a[j] = b[j]

\* (r, c) -> (c, r): a transposition instead of the quarter turn.
rotate_transpose(encoded) ==
    [k \in 1..11 |->
        IF k <= 9
        THEN LET nr == (k - 1) \div 3
                 nc == (k - 1) % 3
             IN  encoded[nc * 3 + nr + 1]
        ELSE IF k = 10 THEN encoded[10] % 2
        ELSE 0]

\* (r, c) -> (c, 2 - r): the cell at new index 3*nr + nc comes from old
\* (2 - nc, nr).  Only bit 54 is carried over above the cells.
rotate_90(encoded) ==
    [k \in 1..11 |->
        IF k <= 9
        THEN LET nr == (k - 1) \div 3
                 nc == (k - 1) % 3
             IN  encoded[(2 - nc) * 3 + nr + 1]
        ELSE IF k = 10 THEN encoded[10] % 2
        ELSE 0]

\* (r, c) -> (r, 2 - c).
reflect_horizontal(encoded) ==
    [k \in 1..11 |->
        IF k <= 9
        THEN LET nr == (k - 1) \div 3
                 nc == (k - 1) % 3
             IN  encoded[nr * 3 + (2 - nc) + 1]
        ELSE IF k = 10 THEN encoded[10] % 2
        ELSE 0]

\* The loop of get_all_symmetries run three times instead of four.
three_rotations(encoded) ==
    LET r0 == encoded
        r1 == rotate_90(r0)
        r2 == rotate_90(r1)
    IN  << r0, reflect_horizontal(r0), r1, reflect_horizontal(r1),
           r2, reflect_horizontal(r2) >>

get_all_symmetries(encoded) ==
    LET r0 == encoded
        r1 == rotate_90(r0)
        r2 == rotate_90(r1)
        r3 == rotate_90(r2)
    IN  << r0, reflect_horizontal(r0), r1, reflect_horizontal(r1),
           r2, reflect_horizontal(r2), r3, reflect_horizontal(r3) >>

canonicalize(encoded) ==
    LET syms == get_all_symmetries(encoded)
        S == {syms[i] : i \in 1..Len(syms)}
    IN  CHOOSE e \in S : \A f \in S : ~encoded_less(f, e)

canonical_of(state) == canonicalize(encode_state(state))

\* Where the piece stacks of a cell go: _rotate_90 takes (r, c) to
\* (c, 2 - r), _reflect_horizontal takes it to (r, 2 - c).
rotate_pos(pos) == << pos[2], 2 - pos[1] >>

reflect_pos(pos) == << pos[1], 2 - pos[2] >>

\* The cell map of entry i of get_all_symmetries: (i - 1) \div 2 quarter
\* turns, then the reflection for the even entries.
sym_pos(i, pos) ==
    LET turns == (i - 1) \div 2
        r1 == IF turns >= 1 THEN rotate_pos(pos) ELSE pos
        r2 == IF turns >= 2 THEN rotate_pos(r1) ELSE r1
        r3 == IF turns >= 3 THEN rotate_pos(r2) ELSE r2
    IN  IF i % 2 = 0 THEN reflect_pos(r3) ELSE r3

\* A position and a move seen through symmetry i.
transform_state(i, st) ==
    [st EXCEPT !.board =
        [pos \in Positions |->
            st.board[CHOOSE q \in Positions : sym_pos(i, q) = pos]]]

transform_move(i, move) ==
    [move EXCEPT !.to_pos = sym_pos(i, @),
                 !.from_pos = IF @ = None THEN None ELSE sym_pos(i, @)]

(* ---------- solver/minimax.py ---------- *)

WIN_P2 == -1
DRAW == 0
WIN_P1 == 1

\* Solver.__init__: _report_interval.
DEFAULT_REPORT_INTERVAL == 100000

SolverStats ==
    [positions_evaluated |-> 0, cache_hits |-> 0, terminal_positions |-> 0,
     cycle_draws |-> 0, max_depth |-> 0]

game_result_to_outcome(result) ==
    IF result = PLAYER_ONE_WINS THEN WIN_P1
    ELSE IF result = PLAYER_TWO_WINS THEN WIN_P2
    ELSE DRAW

max_outcome(outcomes) ==
    CHOOSE o \in {outcomes[i] : i \in 1..Len(outcomes)} :
        \A i \in 1..Len(outcomes) : outcomes[i] <= o

min_outcome(outcomes) ==
    CHOOSE o \in {outcomes[i] : i \in 1..Len(outcomes)} :
        \A i \in 1..Len(outcomes) : o <= outcomes[i]

\* max for Player.ONE, min for Player.TWO.
best_for(player, outcomes) ==
    IF player = ONE THEN max_outcome(outcomes) ELSE min_outcome(outcomes)

zugzwang_draw(player) == DRAW

\* Outcome of a position whose mover has no legal move.
zugzwang_outcome(player) == IF player = ONE THEN WIN_P2 ELSE WIN_P1

\* self.table[key] = outcome.  The table is a function on the stored keys;
\* changed collects the keys whose stored outcome a write replaced by a
\* different one.
table_store(tc, key, outcome) ==
    [table |-> [k \in DOMAIN tc.table \cup {key} |->
                   IF k = key THEN outcome ELSE tc.table[k]],
     changed |-> IF key \in DOMAIN tc.table /\ tc.table[key] # outcome
                 THEN tc.changed \cup {key} ELSE tc.changed]

\* One pass of the loop of _create_frame_fast over generate_moves(state):
\* apply, canonicalize, store the outcome of a move that ends the game, undo.
child_entry(move, applied) ==
    [move |-> move,
     child_canonical |-> canonical_of(applied.state),
     game_result |-> applied.result]

child_info(state, move) == child_entry(move, apply_move_in_place(state, move))

moves_info_of(state) ==
    LET moves == generate_moves(state)
    IN  [i \in 1..Len(moves) |-> child_info(state, moves[i])]

\* The writes of the loop for the moves that end the game, in the order of
\* the moves: the last write to a key decides its outcome, and a key counts
\* as changed when one of its writes differs from what was stored before it.
store_terminal_children(tc, moves_info) ==
    LET terminal == {i \in 1..Len(moves_info) :
                        moves_info[i].game_result # ONGOING}
        key(i) == moves_info[i].child_canonical
        outcome(i) == game_result_to_outcome(moves_info[i].game_result)
        keys == {key(i) : i \in terminal}
        last(k) == CHOOSE i \in terminal :
                       /\ key(i) = k
                       /\ \A j \in terminal : key(j) = k => j <= i
        differs(k) ==
            \/ /\ k \in DOMAIN tc.table
               /\ \E i \in terminal : key(i) = k /\ outcome(i) # tc.table[k]
            \/ \E i, j \in terminal :
                   key(i) = k /\ key(j) = k /\ outcome(i) # outcome(j)
    IN  [table |-> [k \in DOMAIN tc.table \cup keys |->
                       IF k \in keys THEN outcome(last(k)) ELSE tc.table[k]],
         changed |-> tc.changed \cup {k \in keys : differs(k)}]

terminal_children(moves_info) ==
    Cardinality({i \in 1..Len(moves_info) : moves_info[i].game_result # ONGOING})

\* move_priority: 0 for a child stored with the mover's best outcome, 1 for
\* a stored draw or an unknown child, 2 for a stored loss.
move_priority(table, item, best_outcome) ==
    IF item.child_canonical \in DOMAIN table
    THEN IF table[item.child_canonical] = best_outcome THEN 0
         ELSE IF table[item.child_canonical] = DRAW THEN 1
         ELSE 2
    ELSE 1

\* A frame that keeps its children in the order generate_moves gave them.
sort_moves_unsorted(table, moves_info, player) == moves_info

\* list.sort(key=move_priority) is stable.
sort_moves(table, moves_info, player) ==
    LET best_outcome == IF player = ONE THEN WIN_P1 ELSE WIN_P2
        P0(item) == move_priority(table, item, best_outcome) = 0
        P1(item) == move_priority(table, item, best_outcome) = 1
        P2(item) == move_priority(table, item, best_outcome) = 2
    IN  SelectSeq(moves_info, P0) \o SelectSeq(moves_info, P1)
        \o SelectSeq(moves_info, P2)

StackFrame(canonical, moves) ==
    [canonical |-> canonical, moves |-> moves, move_idx |-> 0,
     child_outcomes |-> <<>>, undo_on_pop |-> None]

\* _create_frame_fast after its loop, stored being the table with the
\* outcomes of the moves that end the game: frame is None for a position
\* without legal moves, which is stored as a loss of its mover.
frame_of(stored, state, canonical, moves_info) ==
    IF Len(moves_info) = 0
    THEN [frame |-> None,
          tc |-> table_store(stored, canonical,
                             zugzwang_outcome(state.current_player)),
          terminals |-> 1]
    ELSE [frame |-> StackFrame(canonical,
                       sort_moves(stored.table, moves_info,
                                  state.current_player)),
          tc |-> stored,
          terminals |-> terminal_children(moves_info)]

frame_with(tc, state, canonical, moves_info) ==
    frame_of(store_terminal_children(tc, moves_info), state, canonical,
             moves_info)

create_frame_fast(tc, state, canonical) ==
    frame_with(tc, state, canonical, moves_info_of(state))

\* One pass of the loop of _create_frame over generate_moves(state):
\* play_move on a copy, which carries the position history of the state.
copy_child_info(state, move) ==
    LET done == play_move(state, move)
    IN  [move |-> move, child_state |-> done[1],
         child_canonical |-> canonical_of(done[1]), game_result |-> done[2]]

copy_moves_info_of(state) ==
    LET moves == generate_moves(state)
    IN  [i \in 1..Len(moves) |-> copy_child_info(state, moves[i])]

\* moves_with_children: (move, child_state, child_canonical) of every move.
moves_with_children(infos) ==
    [i \in 1..Len(infos) |->
        [move |-> infos[i].move, child_state |-> infos[i].child_state,
         child_canonical |-> infos[i].child_canonical]]

\* _create_frame after its first loop, stored being the table with the
\* outcomes of the moves that end the game.
copy_frame_of(stored, state, canonical, infos) ==
    IF Len(infos) = 0
    THEN [frame |-> None,
          tc |-> table_store(stored, canonical,
                             zugzwang_outcome(state.current_player)),
          terminals |-> 1]
    ELSE [frame |-> [state |-> state, canonical |-> canonical,
                     moves |-> sort_moves(stored.table,
                                          moves_with_children(infos),
                                          state.current_player),
                     move_idx |-> 0, child_outcomes |-> <<>>],
          tc |-> stored,
          terminals |-> terminal_children(infos)]

copy_frame_with(tc, state, canonical, infos) ==
    copy_frame_of(store_terminal_children(tc, infos), state, canonical, infos)

\* _create_frame: the outcomes of the moves that end the game are stored,
\* the frame keeps (move, child_state, child_canonical) for every move,
\* sorted; a position without legal moves is stored as a loss of its mover
\* and has no frame.
create_frame(tc, state, canonical) ==
    copy_frame_with(tc, state, canonical, copy_moves_info_of(state))

\* Solver.get_outcome, as the sequence of at most one Outcome: empty when
\* the canonical key of the position is not in the table.
get_outcome(tbl, state) ==
    LET canonical == canonical_of(state)
    IN  IF canonical \in DOMAIN tbl THEN << tbl[canonical] >> ELSE None

\* get_best_move, the outcome of the child of a move, as get_outcome gives
\* one: the result of a move that ends the game, else the table entry.
child_outcome_of(tbl, state, move) ==
    LET done == play_move(state, move)
    IN  IF done[2] # ONGOING THEN << game_result_to_outcome(done[2]) >>
        ELSE get_outcome(tbl, done[1])

\* A pass of the loop in which both players prefer the smaller outcome.
best_update_smaller(current_player, best, move, child_outcome) ==
    IF child_outcome = None THEN best
    ELSE IF best = None THEN << move, child_outcome[1] >>
    ELSE IF child_outcome[1] < best[2] THEN << move, child_outcome[1] >>
    ELSE best

\* get_best_move, one pass of the loop: a child without an outcome is
\* skipped, the first child with one is taken, a later one replaces it when
\* it is strictly better for the mover.
best_update(current_player, best, move, child_outcome) ==
    IF child_outcome = None THEN best
    ELSE IF best = None THEN << move, child_outcome[1] >>
    ELSE IF current_player = ONE /\ child_outcome[1] > best[2]
    THEN << move, child_outcome[1] >>
    ELSE IF current_player = TWO /\ child_outcome[1] < best[2]
    THEN << move, child_outcome[1] >>
    ELSE best

\* get_best_move, the loop over the first n moves.
RECURSIVE best_through(_, _, _, _)
best_through(tbl, state, moves, n) ==
    IF n = 0 THEN None
    ELSE best_update(state.current_player,
                     best_through(tbl, state, moves, n - 1), moves[n],
                     child_outcome_of(tbl, state, moves[n]))

\* Solver.get_best_move: None, or (best_move, best_outcome).
get_best_move(tbl, state) ==
    LET moves == generate_moves(state)
    IN  IF Len(moves) = 0 THEN None
        ELSE best_through(tbl, state, moves, Len(moves))

(* ---------- state of the model ---------- *)

VARIABLES
    state,              \* the working GameState (mutated in place)
    table,              \* Solver.table
    stack,              \* the frame stack of _solve_iterative_fast
    path_set,           \* the shared path set
    stats,              \* Solver.stats
    last_report_count,  \* Solver._last_report_count
    report_interval,    \* Solver._report_interval
    hook,               \* Solver._report_progress: "default" or "robust"
    prune,              \* Solver._prune
    force,              \* Solver._force
    initial_canonical,  \* canonical key of the root of the running solve
    returned,           \* << what the last solve() returned >>, None before
    pc,                 \* where the program is
    solves,             \* number of solve() calls made so far
    iterations,         \* history: loop iterations of the running solve
    shutdown_requested, \* robust_solve: the flag the signal handler sets
    saved_positions,    \* IncrementalCheckpointer._saved_positions
    db,                 \* the transposition rows of the checkpoint database
    checkpoints,        \* timed checkpoints written by the running robust_solve
    rewritten,          \* history: keys whose stored outcome a write has changed
    depends,            \* history: for a stored key, the keys on the path whose
                        \* repetition draw decided its outcome
    pushed_after,       \* history: children pushed since shutdown was requested
    interrupted,        \* history: the running solve was left by KeyboardInterrupt
    table_at_call,      \* history: the table when the running solve() was called
    root_state,         \* history: the root of the running solve
    archive,            \* history: what each finished solve() was asked and left
    undo_stack,         \* UndoInfo of the moves applied to state, oldest first
    snapshots,          \* history: the positions before each applied move
    result,             \* GameResult of the last applied move
    last_op,            \* the last operation on the working position, the
                        \* GameResult it produced or undid, the operation undone
    start_position,     \* the position the walk started from
    game,               \* api/main.py: the global Game
    state_snapshots,    \* api/main.py: state_snapshots
    move_notations,     \* api/main.py: move_notations
    current_index,      \* api/main.py: current_index
    response,           \* the reply to the last API request, None before
    request,            \* history: the last API request, None before
    before_request,     \* history: the four globals before the last request
    unsolved,           \* collect_positions.py: the frontier map, canonical -> depth
    visited,            \* collect_positions.py: canonicals seen by the enumeration
    queue,              \* collect_positions.py: the deque of (canonical, depth)
    nodes_explored,     \* collect_positions.py: entries dequeued so far
    stop_flag,          \* collect_positions.py: stop_flag[0]
    exit_reason,        \* how the enumeration left its loop, "none" while it runs
    expanded,           \* history: the canonicals dequeued, in order
    recorded,           \* history: the canonicals written to unsolved, in order
    enqueued,           \* history: the canonicals appended to the queue, in order
    pending_moves,      \* collect_positions.py: the moves the for loop has left
    entry_depth,        \* collect_positions.py: depth of the entry being expanded
    metadata,           \* the metadata rows of the checkpoint database, None
                        \* while the database file does not exist
    last_save,          \* history: what the last save_checkpoint was given, the
                        \* rows it found and what it returned; None before
    last_load,          \* history: what the last load_checkpoint since then
                        \* returned and left in the Solver; None before
    reported_at,        \* history: stats.positions_evaluated at the last call of
                        \* the progress hook in the running solve(), 0 before it
    last_checkpoint,    \* run_solver.py: last_checkpoint of main()
    saved_at,           \* history: stats.positions_evaluated at the last
                        \* save_checkpoint of the hook in the running solve(), 0
                        \* before it
    answer              \* what the last query of the Solver returned, as
                        \* << query, value >>; None before

game_vars == << undo_stack, snapshots, result, last_op, start_position >>

robust_vars == << shutdown_requested, saved_positions, db, checkpoints,
                  pushed_after, interrupted >>

solver_vars == << table, stack, path_set, stats, last_report_count,
                  report_interval, hook, prune, force, initial_canonical,
                  returned, solves, rewritten, depends, table_at_call,
                  root_state, archive >>

api_vars == << game, state_snapshots, move_notations, current_index, response,
              request, before_request >>

bfs_vars == << unsolved, visited, queue, nodes_explored, stop_flag, exit_reason,
              expanded, recorded, enqueued, pending_moves, entry_depth >>

store_vars == << metadata, last_save, last_load >>

query_vars == << answer >>

report_vars == << reported_at >>

run_vars == << last_checkpoint, saved_at >>

extra_vars ==
    << api_vars, bfs_vars, store_vars, query_vars, report_vars, run_vars >>

vars == << state, pc, iterations, solver_vars, robust_vars, game_vars,
           extra_vars >>

EmptyTable == [k \in {} |-> DRAW]

(* ---------- positions the runs start from ---------- *)

\* A position set up the way the tests do: pieces pushed on the cells and
\* the reserves and the mover assigned.
NoReserves == [p \in Player |-> [s \in {SMALL, MEDIUM, LARGE} |-> 0]]

RECURSIVE put_all(_, _, _)
put_all(st, placements, n) ==
    IF n = 0 THEN st
    ELSE place_piece(put_all(st, placements, n - 1),
                     Piece(placements[n][1], placements[n][2]),
                     placements[n][3])

set_up(placements, reserves, player) ==
    [put_all(GameState, placements, Len(placements))
        EXCEPT !.reserves = reserves, !.current_player = player]

\* The position after playing the moves from the initial position; None
\* when a move is not one generate_moves gives or the game ends before the
\* last move.  Each move is <<from_pos or None, size or NoSize, to_pos>>.
RECURSIVE play_from_start(_, _)
play_from_start(moves, n) ==
    IF n = 0 THEN GameState
    ELSE LET before == play_from_start(moves, n - 1)
         IN  IF before = None THEN None
             ELSE LET move == Move(before.current_player, moves[n][3],
                                   moves[n][1], moves[n][2])
                      legal == generate_moves(before)
                      applied == apply_move_in_place(before, move)
                  IN  IF /\ \E i \in 1..Len(legal) : legal[i] = move
                         /\ applied.result = ONGOING
                      THEN applied.state
                      ELSE None

played(moves) == play_from_start(moves, Len(moves))

\* Player.TWO's Large on the centre covers Player.ONE's Small; Player.ONE
\* holds the four edge cells.  Lifting the centre piece exposes row 1 and
\* column 1 together.  Player.TWO is to move.
DoubleReveal ==
    played(<< <<None, SMALL, <<1, 1>> >>, <<None, LARGE, <<1, 1>> >>,
              <<None, SMALL, <<1, 0>> >>, <<None, SMALL, <<0, 0>> >>,
              <<None, MEDIUM, <<1, 2>> >>, <<None, SMALL, <<0, 2>> >>,
              <<None, MEDIUM, <<0, 1>> >>, << <<0, 2>>, NoSize, <<2, 0>> >>,
              <<None, LARGE, <<2, 1>> >> >>)

\* The first five of those moves: lifting the centre piece exposes row 1.
SingleReveal ==
    played(<< <<None, SMALL, <<1, 1>> >>, <<None, LARGE, <<1, 1>> >>,
              <<None, SMALL, <<1, 0>> >>, <<None, SMALL, <<0, 0>> >>,
              <<None, MEDIUM, <<1, 2>> >> >>)

\* test_same_square_not_allowed_even_when_valid_gobble: Player.TWO Smalls on
\* row 0, the one at (0,2) under a Player.ONE Large; reserves untouched.
RevealRow ==
    put_all(GameState,
            << <<TWO, SMALL, <<0, 0>> >>, <<TWO, SMALL, <<0, 1>> >>,
               <<TWO, SMALL, <<0, 2>> >>, <<ONE, LARGE, <<0, 2>> >> >>, 4)

\* test_reveal_no_save_possible: Player.TWO Larges on row 0, the one at
\* (0,2) under a Player.ONE Medium.
RevealNoSave ==
    put_all(GameState,
            << <<TWO, LARGE, <<0, 0>> >>, <<TWO, LARGE, <<0, 1>> >>,
               <<TWO, LARGE, <<0, 2>> >>, <<ONE, MEDIUM, <<0, 2>> >> >>, 4)

(* ---------- Solver.solve / _solve_iterative_fast ---------- *)

\* solve() is called at most this many times in one behaviour.
MaxSolves == 2

\* Timed checkpoints one robust_solve run writes before its final one.
MaxCheckpoints == 1

\* A shutdown is requested within the first SignalEarly loop iterations of
\* a solve or after at least SignalLate of them.
SignalEarly == 2
SignalLate == 400

\* Alpha-beta: with pruning on and an outcome collected, the cursor jumps
\* to the end once the mover has its best outcome.
prune_cursor(frame, player, pruning) ==
    IF pruning /\ Len(frame.child_outcomes) > 0
    THEN LET current_best == best_for(player, frame.child_outcomes)
         IN  IF \/ (player = ONE /\ current_best = WIN_P1)
                \/ (player = TWO /\ current_best = WIN_P2)
             THEN Len(frame.moves)
             ELSE frame.move_idx
    ELSE frame.move_idx

\* Outcome of a popped frame: max or min of the collected outcomes, the
\* zugzwang loss when there is none.
frame_outcome(frame, player) ==
    IF Len(frame.child_outcomes) > 0
    THEN best_for(player, frame.child_outcomes)
    ELSE zugzwang_outcome(player)

\* stack[-1].child_outcomes.append(outcome)
append_outcome(frames, outcome) ==
    IF Len(frames) = 0 THEN frames
    ELSE [frames EXCEPT ![Len(frames)].child_outcomes = Append(@, outcome)]

path_add(paths, canonical) == paths \cup {canonical}

path_keep(paths, canonical) == paths

path_discard(paths, canonical) == paths \ {canonical}

report_due(evaluated, last_count, interval) == evaluated - last_count >= interval

\* robust_solve: solver._report_interval = 1000
ROBUST_REPORT_INTERVAL == 1000

EmptyDeps == [k \in {} |-> {}]

\* The API module as imported: a new Game, its initial position the only
\* snapshot, no request served.
ApiIdle ==
    /\ game = Game(GameState)
    /\ state_snapshots = << GameState >>
    /\ move_notations = <<>>
    /\ current_index = 0
    /\ response = None
    /\ request = None
    /\ before_request = None

EmptyDepths == [k \in {} |-> 0]

\* No enumeration has been called.
BfsIdle ==
    /\ unsolved = EmptyDepths
    /\ visited = {}
    /\ queue = <<>>
    /\ nodes_explored = 0
    /\ stop_flag = FALSE
    /\ exit_reason = "none"
    /\ expanded = <<>>
    /\ recorded = <<>>
    /\ enqueued = <<>>
    /\ pending_moves = <<>>
    /\ entry_depth = 0

\* No checkpoint database has been written.
StoreIdle ==
    /\ metadata = None
    /\ last_save = None
    /\ last_load = None

ExtraIdle ==
    /\ ApiIdle /\ BfsIdle /\ StoreIdle /\ answer = None /\ reported_at = 0
    /\ last_checkpoint = 0
    /\ saved_at = 0

\* A Solver as __init__ leaves it, before any solve().
SolverIdle ==
    /\ table = EmptyTable
    /\ stack = <<>>
    /\ path_set = {}
    /\ stats = SolverStats
    /\ last_report_count = 0
    /\ report_interval = DEFAULT_REPORT_INTERVAL
    /\ hook = "default"
    /\ prune = TRUE
    /\ force = FALSE
    /\ initial_canonical = None
    /\ returned = None
    /\ solves = 0
    /\ rewritten = {}
    /\ depends = EmptyDeps
    /\ table_at_call = EmptyTable
    /\ root_state = GameState
    /\ archive = <<>>

\* No robust_solve has run: no signal, an empty checkpoint database.
RobustIdle ==
    /\ shutdown_requested = FALSE
    /\ saved_positions = {}
    /\ db = EmptyTable
    /\ checkpoints = 0
    /\ pushed_after = FALSE
    /\ interrupted = "no"

\* An entry that answers a cached root from the table and then drops the
\* entry.
entry_drops_root(tbl, changed, forced, key, created) ==
    [done |-> TRUE,
     returned |-> IF key \in DOMAIN tbl THEN tbl[key] ELSE DRAW,
     table |-> [k \in DOMAIN tbl \ {key} |-> tbl[k]],
     changed |-> changed, stack |-> <<>>, path_set |-> {},
     stats |-> SolverStats]

\* _solve_iterative_fast up to the loop, created being the root frame: the
\* cached outcome of the root, or the root frame; done when it returns
\* before the loop.
entry_of(tbl, changed, forced, key, created) ==
    IF ~forced /\ key \in DOMAIN tbl
    THEN [done |-> TRUE, returned |-> tbl[key], table |-> tbl,
          changed |-> changed, stack |-> <<>>, path_set |-> {},
          stats |-> SolverStats]
    ELSE IF created.frame = None
    THEN [done |-> TRUE, returned |-> created.tc.table[key],
          table |-> created.tc.table, changed |-> created.tc.changed,
          stack |-> <<>>, path_set |-> {},
          stats |-> [SolverStats EXCEPT
                        !.terminal_positions = created.terminals]]
    ELSE [done |-> FALSE, returned |-> None,
          table |-> created.tc.table, changed |-> created.tc.changed,
          stack |-> << created.frame >>,
          path_set |-> path_add({}, key),
          stats |-> [SolverStats EXCEPT
                        !.terminal_positions = created.terminals]]

entry_at(tbl, changed, root, forced, key) ==
    entry_of(tbl, changed, forced, key,
             create_frame_fast([table |-> tbl, changed |-> changed], root, key))

solve_entry(tbl, changed, root, forced) ==
    entry_at(tbl, changed, root, forced, canonical_of(root))

\* The record the archive keeps of a finished solve().
solve_record(root, pruning, forced, start, tbl, outcome) ==
    [root |-> root, prune |-> pruning, force |-> forced, start |-> start,
     table |-> tbl, returned |-> outcome]

\* solve(root, prune=pruning, force=forced) up to the first loop iteration,
\* entry being what _solve_iterative_fast does before the loop on the table
\* start; control is at after when it returns before the loop.
EnterSolve(entry, root, pruning, forced, start, after) ==
    /\ table' = entry.table
    /\ rewritten' = entry.changed
    /\ stack' = entry.stack
    /\ path_set' = entry.path_set
    /\ stats' = entry.stats
    /\ returned' = IF entry.done THEN << entry.returned >> ELSE None
    /\ pc' = IF entry.done THEN after ELSE "loop"
    /\ archive' = IF entry.done
                  THEN Append(archive,
                           solve_record(root, pruning, forced, start,
                                        entry.table, entry.returned))
                  ELSE archive
    /\ solves' = solves + 1
    /\ prune' = pruning
    /\ force' = forced
    /\ state' = root
    /\ root_state' = root
    /\ table_at_call' = start
    /\ initial_canonical' = canonical_of(root)
    /\ iterations' = 0
    /\ reported_at' = 0

\* solver.solve(root, fast=True, prune=pruning, force=forced) on the Solver
\* at hand.
SolveCall(root, pruning, forced) ==
    /\ pc = "idle"
    /\ hook = "default"
    /\ solves < MaxSolves
    /\ EnterSolve(solve_entry(table, rewritten, root, forced), root, pruning,
                  forced, table, "idle")
    /\ UNCHANGED << last_report_count, report_interval, hook, depends,
                    robust_vars, game_vars, api_vars, bfs_vars, store_vars,
                    query_vars, run_vars >>

\* solver = Solver(): the next solve() runs on a new Solver.
NewSolver ==
    /\ pc = "idle"
    /\ hook = "default"
    /\ solves > 0
    /\ solves < MaxSolves
    /\ table # EmptyTable
    /\ table' = EmptyTable
    /\ stats' = SolverStats
    /\ last_report_count' = 0
    /\ prune' = TRUE
    /\ force' = FALSE
    /\ rewritten' = {}
    /\ depends' = EmptyDeps
    /\ UNCHANGED << state, pc, iterations, stack, path_set, report_interval,
                    hook, initial_canonical, returned, solves, table_at_call,
                    root_state, archive, robust_vars, game_vars, extra_vars >>

\* A push that leaves the move of a child without a frame applied.
PushChild_no_undo(depth, item, advanced, applied, created) ==
    /\ table' = created.tc.table
    /\ rewritten' = created.tc.changed
    /\ pc' = pc
    /\ pushed_after' = (pushed_after \/ shutdown_requested)
    /\ IF created.frame = None
       THEN /\ stack' = [stack EXCEPT ![depth] =
                   [advanced EXCEPT !.child_outcomes =
                       Append(@, created.tc.table[item.child_canonical])]]
            /\ state' = applied.state
            /\ path_set' = path_set
            /\ stats' = [stats EXCEPT !.terminal_positions =
                             @ + created.terminals]
       ELSE /\ stack' = Append([stack EXCEPT ![depth] = advanced],
                   [created.frame EXCEPT !.undo_on_pop = applied.undo])
            /\ state' = applied.state
            /\ path_set' = path_add(path_set, item.child_canonical)
            /\ stats' = [stats EXCEPT
                   !.terminal_positions = @ + created.terminals,
                   !.max_depth = IF depth + 1 > @ THEN depth + 1 ELSE @]

\* The child was applied and framed: its stored outcome is collected and
\* the move undone when it has no legal move, else its frame is pushed.
PushChild(depth, item, advanced, applied, created) ==
    /\ table' = created.tc.table
    /\ rewritten' = created.tc.changed
    /\ pc' = pc
    /\ pushed_after' = (pushed_after \/ shutdown_requested)
    /\ IF created.frame = None
       THEN /\ stack' = [stack EXCEPT ![depth] =
                   [advanced EXCEPT !.child_outcomes =
                       Append(@, created.tc.table[item.child_canonical])]]
            /\ state' = undo_move_in_place(applied.state, applied.undo)
            /\ path_set' = path_set
            /\ stats' = [stats EXCEPT !.terminal_positions =
                             @ + created.terminals]
       ELSE /\ stack' = Append([stack EXCEPT ![depth] = advanced],
                   [created.frame EXCEPT !.undo_on_pop = applied.undo])
            /\ state' = applied.state
            /\ path_set' = path_add(path_set, item.child_canonical)
            /\ stats' = [stats EXCEPT
                   !.terminal_positions = @ + created.terminals,
                   !.max_depth = IF depth + 1 > @ THEN depth + 1 ELSE @]

\* apply_move_in_place, then _create_frame_fast on the child.
ApplyChild(depth, item, advanced, applied) ==
    PushChild(depth, item, advanced, applied,
              create_frame_fast([table |-> table, changed |-> rewritten],
                                applied.state, item.child_canonical))

\* A loop that never looks a child up in the table.
TakeChild_no_table(depth, item, advanced) ==
    IF item.child_canonical \in path_set
    THEN /\ stats' = [stats EXCEPT !.cycle_draws = @ + 1]
         /\ stack' = [stack EXCEPT ![depth] =
                [advanced EXCEPT !.child_outcomes = Append(@, DRAW)]]
         /\ UNCHANGED << state, table, path_set, rewritten, pc, pushed_after >>
    ELSE IF item.game_result # ONGOING
    THEN /\ stack' = [stack EXCEPT ![depth] =
                [advanced EXCEPT !.child_outcomes =
                    Append(@, table[item.child_canonical])]]
         /\ UNCHANGED << state, table, path_set, rewritten, stats, pc,
                         pushed_after >>
    ELSE ApplyChild(depth, item, advanced,
                    apply_move_in_place(state, item.move))

\* A loop that looks a child up in the table before it looks at the path.
TakeChild_table_first(depth, item, advanced) ==
    IF item.child_canonical \in DOMAIN table
    THEN /\ stats' = [stats EXCEPT !.cache_hits = @ + 1]
         /\ stack' = [stack EXCEPT ![depth] =
                [advanced EXCEPT !.child_outcomes =
                    Append(@, table[item.child_canonical])]]
         /\ UNCHANGED << state, table, path_set, rewritten, pc, pushed_after >>
    ELSE IF item.child_canonical \in path_set
    THEN /\ stats' = [stats EXCEPT !.cycle_draws = @ + 1]
         /\ stack' = [stack EXCEPT ![depth] =
                [advanced EXCEPT !.child_outcomes = Append(@, DRAW)]]
         /\ UNCHANGED << state, table, path_set, rewritten, pc, pushed_after >>
    ELSE IF item.game_result # ONGOING
    THEN /\ pc' = "KeyError"
         /\ stack' = [stack EXCEPT ![depth] = advanced]
         /\ UNCHANGED << state, table, path_set, rewritten, stats,
                         pushed_after >>
    ELSE ApplyChild(depth, item, advanced,
                    apply_move_in_place(state, item.move))

\* What the loop does with the child it takes.
TakeChild(depth, item, advanced) ==
    IF item.child_canonical \in path_set
    THEN \* a cycle: the child is on the current path
         /\ stats' = [stats EXCEPT !.cycle_draws = @ + 1]
         /\ stack' = [stack EXCEPT ![depth] =
                [advanced EXCEPT !.child_outcomes = Append(@, DRAW)]]
         /\ UNCHANGED << state, table, path_set, rewritten, pc, pushed_after >>
    ELSE IF item.child_canonical \in DOMAIN table
    THEN \* a transposition: the stored outcome
         /\ stats' = [stats EXCEPT !.cache_hits = @ + 1]
         /\ stack' = [stack EXCEPT ![depth] =
                [advanced EXCEPT !.child_outcomes =
                    Append(@, table[item.child_canonical])]]
         /\ UNCHANGED << state, table, path_set, rewritten, pc, pushed_after >>
    ELSE IF item.game_result # ONGOING
    THEN \* self.table[child_canonical] of a missing key
         /\ pc' = "KeyError"
         /\ stack' = [stack EXCEPT ![depth] = advanced]
         /\ UNCHANGED << state, table, path_set, rewritten, stats,
                         pushed_after >>
    ELSE ApplyChild(depth, item, advanced,
                    apply_move_in_place(state, item.move))

\* One loop iteration that takes the next child of the top frame.
SolveChild ==
    /\ pc = "loop"
    /\ Len(stack) > 0
    /\ LET depth == Len(stack)
           frame == stack[depth]
           cursor == prune_cursor(frame, state.current_player, prune)
       IN  /\ cursor < Len(frame.moves)
           /\ TakeChild(depth, frame.moves[cursor + 1],
                        [frame EXCEPT !.move_idx = cursor + 1])
    /\ iterations' = iterations + 1
    /\ UNCHANGED << last_report_count, report_interval, hook, prune, force,
                    initial_canonical, returned, solves, depends, table_at_call,
                    root_state, archive, shutdown_requested, saved_positions,
                    db, checkpoints, interrupted, game_vars, extra_vars >>

\* IncrementalCheckpointer.force_checkpoint: the rows of the keys not saved
\* before are written, the others are left as they are.
force_checkpoint(tbl, saved, rows) ==
    LET new_positions == {k \in DOMAIN tbl : k \notin saved}
    IN  [db |-> [k \in DOMAIN rows \cup new_positions |->
                    IF k \in new_positions THEN tbl[k] ELSE rows[k]],
         saved |-> saved \cup new_positions]

\* A timed checkpoint that keeps every row it is given and marks nothing
\* saved.
maybe_checkpoint_skips(timed, tbl, saved, rows) == [db |-> rows, saved |-> saved]

\* IncrementalCheckpointer.maybe_checkpoint as report_progress calls it:
\* nothing while the interval has not elapsed ("no"); force_checkpoint when
\* it has ("written"); when the write raises ("failed") the connection is
\* closed without a commit, so no row is written and no key marked saved.
maybe_checkpoint(timed, tbl, saved, rows) ==
    IF timed = "written" THEN force_checkpoint(tbl, saved, rows)
    ELSE [db |-> rows, saved |-> saved]

\* The children of a popped frame that were taken as repetition draws
\* because they were on the path below the frame.
cycle_children(frame, paths) ==
    {frame.moves[i].child_canonical : i \in 1..Len(frame.child_outcomes)}
    \cap (paths \ {frame.canonical})

\* One loop iteration that pops the top frame: all its children are done or
\* pruned.  The progress hook runs when it is due: the default one notes the
\* count; robust_solve's checkpoints when the checkpoint interval has elapsed,
\* which leaves the solve by the exception of a write that fails, and raises
\* KeyboardInterrupt when shutdown was requested.
SolvePop ==
    /\ pc = "loop"
    /\ Len(stack) > 0
    /\ LET depth == Len(stack)
           frame == stack[depth]
           player == state.current_player
           cursor == prune_cursor(frame, player, prune)
           outcome == frame_outcome(frame, player)
           stored == table_store([table |-> table, changed |-> rewritten],
                                 frame.canonical, outcome)
           evaluated == stats.positions_evaluated + 1
           due == report_due(evaluated, last_report_count, report_interval)
           on_path == cycle_children(frame, path_set)
           raised == due /\ hook = "robust" /\ shutdown_requested
       IN  /\ cursor >= Len(frame.moves)
           /\ path_set' = path_discard(path_set, frame.canonical)
           /\ table' = stored.table
           /\ rewritten' = stored.changed
           /\ depends' = IF on_path # {} /\ outcome = DRAW
                         THEN [k \in DOMAIN depends \cup {frame.canonical} |->
                                  IF k = frame.canonical THEN on_path ELSE depends[k]]
                         ELSE depends
           /\ state' = IF frame.undo_on_pop # None
                       THEN undo_move_in_place(state, frame.undo_on_pop)
                       ELSE state
           /\ stats' = [stats EXCEPT
                  !.positions_evaluated = evaluated,
                  !.terminal_positions =
                      IF Len(frame.child_outcomes) > 0 THEN @ ELSE @ + 1]
           /\ last_report_count' =
                  IF due /\ hook = "default" THEN evaluated ELSE last_report_count
           /\ reported_at' = IF due THEN evaluated ELSE reported_at
           /\ \E timed \in {"no", "written", "failed"} :
                 /\ timed # "no" =>
                        (due /\ hook = "robust" /\ checkpoints < MaxCheckpoints)
                 /\ LET saved == maybe_checkpoint(timed, stored.table,
                                                  saved_positions, db)
                        left == IF timed = "failed" THEN "Exception"
                                ELSE IF raised THEN "KeyboardInterrupt"
                                ELSE "no"
                    IN  /\ db' = saved.db
                        /\ saved_positions' = saved.saved
                        /\ checkpoints' = IF timed = "no" THEN checkpoints
                                          ELSE checkpoints + 1
                        /\ stack' = IF left # "no" THEN SubSeq(stack, 1, depth - 1)
                                    ELSE append_outcome(SubSeq(stack, 1, depth - 1),
                                                        outcome)
                        /\ pc' = IF left # "no" THEN "finally" ELSE pc
                        /\ interrupted' = IF left # "no" THEN left ELSE interrupted
    /\ iterations' = iterations + 1
    /\ UNCHANGED << report_interval, hook, prune, force, initial_canonical,
                    returned, solves, table_at_call, root_state, archive,
                    shutdown_requested, pushed_after, game_vars, api_vars,
                    bfs_vars, store_vars, query_vars, run_vars >>

\* The stack is empty: return self.table[initial_canonical].
SolveReturn ==
    /\ pc = "loop"
    /\ Len(stack) = 0
    /\ returned' = << table[initial_canonical] >>
    /\ archive' = Append(archive,
                      solve_record(root_state, prune, force, table_at_call,
                                   table, table[initial_canonical]))
    /\ pc' = IF hook = "robust" THEN "finally" ELSE "idle"
    /\ UNCHANGED << state, table, stack, path_set, stats, last_report_count,
                    report_interval, hook, prune, force, initial_canonical,
                    solves, rewritten, depends, table_at_call, root_state,
                    iterations, robust_vars, game_vars, extra_vars >>

(* ---------- solver/robust_solve.py ---------- *)

\* robust_solve(config): a new Solver, the checkpoint loaded into its table,
\* the hook and the report interval installed, then solver.solve up to the
\* first loop iteration.
RobustCall(root, pruning, forced) ==
    /\ pc = "idle"
    /\ solves < MaxSolves
    /\ EnterSolve(solve_entry(db, {}, root, forced), root, pruning, forced,
                  db, "finally")
    /\ hook' = "robust"
    /\ report_interval' = ROBUST_REPORT_INTERVAL
    /\ last_report_count' = 0
    /\ depends' = EmptyDeps
    /\ shutdown_requested' = FALSE
    /\ saved_positions' = DOMAIN db
    /\ checkpoints' = 0
    /\ pushed_after' = FALSE
    /\ interrupted' = "no"
    /\ UNCHANGED << db, game_vars, api_vars, bfs_vars, store_vars, query_vars, run_vars >>

\* handle_signal, first signal: the flag is set.
RequestShutdown ==
    /\ pc = "loop"
    /\ hook = "robust"
    /\ ~shutdown_requested
    /\ iterations <= SignalEarly \/ iterations >= SignalLate
    /\ shutdown_requested' = TRUE
    /\ UNCHANGED << state, pc, solver_vars, iterations, saved_positions, db,
                    checkpoints, pushed_after, interrupted, game_vars, extra_vars >>

\* handle_signal, second signal: sys.exit(1) unwinds the solve.
ForceQuit ==
    /\ pc = "loop"
    /\ hook = "robust"
    /\ shutdown_requested
    /\ pc' = "finally"
    /\ interrupted' = "SystemExit"
    /\ UNCHANGED << state, solver_vars, iterations, shutdown_requested,
                    saved_positions, db, checkpoints, pushed_after, game_vars, extra_vars >>

\* The finally block: checkpointer.force_checkpoint(solver); then
\* robust_solve returns, or the process exits after a force quit.
RobustFinally ==
    /\ pc = "finally"
    /\ LET saved == force_checkpoint(table, saved_positions, db)
       IN  /\ db' = saved.db
           /\ saved_positions' = saved.saved
    /\ pc' = IF interrupted = "SystemExit" THEN "exited" ELSE "idle"
    /\ UNCHANGED << state, solver_vars, iterations, shutdown_requested,
                    checkpoints, pushed_after, interrupted, game_vars, extra_vars >>

\* handle_signal while the finally block is writing the final checkpoint:
\* a first signal only sets the flag; a second one raises SystemExit inside
\* force_checkpoint, whose finally closes the connection without a commit.
SignalInFinally ==
    /\ pc = "finally"
    /\ hook = "robust"
    /\ IF shutdown_requested
       THEN /\ pc' = "killed"
            /\ interrupted' = "SystemExit"
            /\ UNCHANGED shutdown_requested
       ELSE /\ shutdown_requested' = TRUE
            /\ UNCHANGED << pc, interrupted >>
    /\ UNCHANGED << state, solver_vars, iterations, saved_positions, db,
                    checkpoints, pushed_after, game_vars, extra_vars >>

(* ---------- the positions solve() is called on ---------- *)

\* Player.TWO's Large next to Player.ONE's Small, nothing in reserve.
Chase ==
    set_up(<< <<TWO, LARGE, <<0, 1>> >>, <<ONE, SMALL, <<1, 1>> >> >>,
           NoReserves, TWO)

Cornered ==
    set_up(<< <<ONE, SMALL, <<0, 0>> >>, <<TWO, LARGE, <<0, 1>> >> >>,
           NoReserves, ONE)

CornerLarge ==
    set_up(<< <<TWO, LARGE, <<0, 0>> >>, <<ONE, SMALL, <<0, 1>> >> >>,
           NoReserves, ONE)

\* Player.TWO Larges at (1,0) and (1,1), Player.ONE Smalls at (2,0) and
\* (2,1), nothing in reserve, Player.ONE to move.
LargePair ==
    set_up(<< <<TWO, LARGE, <<1, 0>> >>, <<TWO, LARGE, <<1, 1>> >>,
              <<ONE, SMALL, <<2, 0>> >>, <<ONE, SMALL, <<2, 1>> >> >>,
           NoReserves, ONE)

\* S3 of the specification: Player.TWO Larges on row 0, the one at (0,2)
\* under a Player.ONE Medium, Player.ONE without reserves and to move.
NoSaveNoReserve == [RevealNoSave EXCEPT !.reserves = NoReserves]

\* DoubleReveal seen in a mirror (columns 0 and 2 exchanged).
DoubleRevealMirror ==
    played(<< <<None, SMALL, <<1, 1>> >>, <<None, LARGE, <<1, 1>> >>,
              <<None, SMALL, <<1, 2>> >>, <<None, SMALL, <<0, 2>> >>,
              <<None, MEDIUM, <<1, 0>> >>, <<None, SMALL, <<0, 0>> >>,
              <<None, MEDIUM, <<0, 1>> >>, << <<0, 0>>, NoSize, <<2, 2>> >>,
              <<None, LARGE, <<2, 1>> >> >>)

\* solve(root, prune, force) as << root, prune, force >>.
SolverCalls ==
    { << Chase, TRUE, FALSE >>,
      << Cornered, TRUE, FALSE >>, << Cornered, FALSE, FALSE >>,
      << Cornered, TRUE, TRUE >>, << CornerLarge, TRUE, FALSE >>,
      << NoSaveNoReserve, TRUE, FALSE >>,
      << DoubleReveal, TRUE, FALSE >>, << DoubleRevealMirror, TRUE, TRUE >> }

SolverInit ==
    /\ state = GameState
    /\ pc = "idle"
    /\ iterations = 0
    /\ SolverIdle
    /\ RobustIdle
    /\ ExtraIdle
    /\ undo_stack = <<>>
    /\ snapshots = <<>>
    /\ result = ONGOING
    /\ last_op = << "none", ONGOING, "none" >>
    /\ start_position = GameState

SolverNext ==
    \/ \E call \in SolverCalls : SolveCall(call[1], call[2], call[3])
    \/ NewSolver
    \/ SolveChild
    \/ SolvePop
    \/ SolveReturn

SpecSolver == SolverInit /\ [][SolverNext]_vars

\* A single solve() on a new Solver.
FreshCalls ==
    ({Chase, Cornered, CornerLarge} \X BOOLEAN \X {FALSE})
    \cup {<< LargePair, TRUE, FALSE >>}

FreshNext ==
    \/ \E call \in FreshCalls :
          solves = 0 /\ SolveCall(call[1], call[2], call[3])
    \/ SolveChild
    \/ SolvePop
    \/ SolveReturn

SpecFresh == SolverInit /\ [][FreshNext]_vars

\* `while stack` goes on to its next iteration, and the return that follows
\* it is executed: nothing but an exception ends the loop early.
LoopIteration ==
    /\ pc = "loop"
    /\ Len(stack) > 0
    /\ iterations' = iterations + 1

LoopExit ==
    /\ pc = "loop"
    /\ Len(stack) = 0
    /\ pc' = "idle"

SpecFreshFair ==
    /\ SolverInit
    /\ [][FreshNext]_vars
    /\ WF_iterations(LoopIteration)
    /\ WF_pc(LoopExit)

\* The report interval the scripts install before they call solve()
\* (solver._report_interval = 100 in solve_subtrees.py), scaled to the
\* solves of the model.
ReportEvery == 3

\* solver._report_interval = ReportEvery, on a Solver that has not solved yet.
SetReportInterval ==
    /\ pc = "idle"
    /\ hook = "default"
    /\ solves = 0
    /\ report_interval # ReportEvery
    /\ report_interval' = ReportEvery
    /\ UNCHANGED << state, pc, iterations, table, stack, path_set, stats,
                    last_report_count, hook, prune, force, initial_canonical,
                    returned, solves, rewritten, depends, table_at_call,
                    root_state, archive, robust_vars, game_vars, extra_vars >>

\* Successive solve() calls on one Solver whose hook is Solver._report_progress.
ReportRoots == {Chase, Cornered, CornerLarge}

ReportsNext ==
    \/ SetReportInterval
    \/ \E root \in ReportRoots, pruning \in BOOLEAN :
          SolveCall(root, pruning, FALSE)
    \/ SolveChild
    \/ SolvePop
    \/ SolveReturn

SpecReports == SolverInit /\ [][ReportsNext]_vars

\* unpruned_solve.py: solve(prune=False, force=True) on the table an earlier
\* pruned solve of the same root has left (the table load_checkpoint gives).
\* Player.ONE's Large and Player.TWO's Small in two corners of row 0, nothing
\* in reserve, Player.ONE to move.
Apart ==
    set_up(<< <<ONE, LARGE, <<0, 0>> >>, <<TWO, SMALL, <<0, 2>> >> >>,
           NoReserves, ONE)

UnprunedRoots == {Chase, Cornered, CornerLarge, Apart}

UnprunedNext ==
    \/ \E root \in UnprunedRoots : solves = 0 /\ SolveCall(root, TRUE, FALSE)
    \/ \E root \in UnprunedRoots :
          /\ Len(archive) = 1
          /\ archive[1].root = root
          /\ SolveCall(root, FALSE, TRUE)
    \/ SolveChild
    \/ SolvePop
    \/ SolveReturn

SpecUnpruned == SolverInit /\ [][UnprunedNext]_vars

RobustCalls == {Chase, Cornered} \X BOOLEAN \X BOOLEAN

RobustNext ==
    \/ \E call \in RobustCalls : RobustCall(call[1], call[2], call[3])
    \/ RequestShutdown
    \/ ForceQuit
    \/ SolveChild
    \/ SolvePop
    \/ SolveReturn
    \/ RobustFinally
    \/ SignalInFinally

SpecRobust == SolverInit /\ [][RobustNext]_vars

(* ---------- robust_solve on the initial position ---------- *)

\* Calls of the progress hook followed in one robust_solve run.
MaxReports == 2

\* Positions one move from the start, which a solve of the initial position
\* evaluates and stores.
ReportKeys ==
    { canonical_of(played(<< <<None, SMALL, <<0, 0>> >> >>)),
      canonical_of(played(<< <<None, LARGE, <<1, 1>> >> >>)) }

Outcomes == {WIN_P2, DRAW, WIN_P1}

\* The table after the loop has stored the outcomes outs of keys it did not
\* hold.
stored_since(tbl, outs) ==
    [k \in DOMAIN tbl \cup DOMAIN outs |->
        IF k \in DOMAIN outs THEN outs[k] ELSE tbl[k]]

\* report_progress of robust_solve: the timed checkpoint, then the shutdown
\* check.  Nothing catches what maybe_checkpoint raises, so a write that
\* fails leaves the hook, and with it solver.solve, by its exception.
report_progress(timed, requested, tbl, saved, rows) ==
    LET kept == maybe_checkpoint(timed, tbl, saved, rows)
    IN  [db |-> kept.db, saved |-> kept.saved,
         raised |-> IF timed = "failed" THEN "Exception"
                    ELSE IF requested THEN "KeyboardInterrupt"
                    ELSE "no"]

\* The number of evaluated positions at the next call of the hook: the
\* hook is first called at report_interval positions and, as it never moves
\* _last_report_count, at every position after that.
next_report(evaluated, last_count, interval) ==
    IF evaluated + 1 - last_count >= interval THEN evaluated + 1
    ELSE last_count + interval

\* The loop of a running robust_solve up to and including the next call of
\* the hook, taken in one step: the frames popped on the way have stored
\* the outcomes of keys the table did not hold, the root's when the frame
\* that calls the hook is the last one.  The working position and the
\* frames in between are not followed.  Leaving the hook by an exception
\* leaves solver.solve; so does popping the root.
SolveToReport ==
    /\ pc = "loop"
    /\ hook = "robust"
    /\ Len(stack) > 0
    /\ stats.positions_evaluated < report_interval + MaxReports - 1
    /\ \E keys \in SUBSET ((ReportKeys \cup {initial_canonical}) \ DOMAIN table) :
          /\ keys # {}
          /\ \E outs \in [keys -> Outcomes], timed \in {"no", "written", "failed"} :
                LET tbl == stored_since(table, outs)
                    report == report_progress(timed, shutdown_requested, tbl,
                                              saved_positions, db)
                    finished == report.raised = "no" /\ initial_canonical \in keys
                    evaluated == next_report(stats.positions_evaluated,
                                             last_report_count, report_interval)
                IN  /\ table' = tbl
                    /\ stats' = [stats EXCEPT !.positions_evaluated = evaluated]
                    /\ reported_at' = evaluated
                    /\ iterations' = evaluated
                    /\ db' = report.db
                    /\ saved_positions' = report.saved
                    /\ checkpoints' = IF timed = "no" THEN checkpoints
                                      ELSE checkpoints + 1
                    /\ interrupted' = IF report.raised # "no" THEN report.raised
                                      ELSE interrupted
                    /\ pc' = IF report.raised # "no" \/ finished THEN "finally"
                             ELSE pc
                    /\ stack' = IF finished THEN <<>> ELSE stack
                    /\ returned' = IF finished THEN << tbl[initial_canonical] >>
                                   ELSE returned
                    /\ archive' = IF finished
                                  THEN Append(archive,
                                           solve_record(root_state, prune, force,
                                                        table_at_call, tbl,
                                                        tbl[initial_canonical]))
                                  ELSE archive
    /\ UNCHANGED << state, path_set, last_report_count, report_interval, hook,
                    prune, force, initial_canonical, solves, rewritten, depends,
                    table_at_call, root_state, shutdown_requested, pushed_after,
                    game_vars, api_vars, bfs_vars, store_vars, query_vars, run_vars >>

\* robust_solve with the default start_state, signals included.
CheckpointNext ==
    \/ RobustCall(GameState, TRUE, FALSE)
    \/ RequestShutdown
    \/ ForceQuit
    \/ SolveToReport
    \/ RobustFinally
    \/ SignalInFinally

SpecCheckpoint == SolverInit /\ [][CheckpointNext]_vars

(* ---------- solver/checkpoint.py: save_checkpoint, load_checkpoint ---------- *)

\* str(n) of a counter, as the sequence of its decimal digits.
RECURSIVE str(_)
str(n) == IF n < 10 THEN << n >> ELSE Append(str(n \div 10), n % 10)

\* int(value) of a string of decimal digits.
RECURSIVE int(_)
int(value) ==
    IF Len(value) = 0 THEN 0
    ELSE 10 * int(SubSeq(value, 1, Len(value) - 1)) + value[Len(value)]

METADATA_KEYS ==
    {"positions_evaluated", "cache_hits", "terminal_positions", "cycle_draws",
     "max_depth"}

\* INSERT OR IGNORE of a batch: a row whose key exists is not written.
insert_or_ignore(rows, batch) ==
    [k \in DOMAIN rows \cup DOMAIN batch |->
        IF k \in DOMAIN rows THEN rows[k] ELSE batch[k]]

\* INSERT OR REPLACE of a batch: a row of the batch replaces the row with
\* its key, the other rows stay.
insert_or_replace(rows, batch) ==
    [k \in DOMAIN rows \cup DOMAIN batch |->
        IF k \in DOMAIN batch THEN batch[k] ELSE rows[k]]

\* save_checkpoint(solver): init_db creates the file when it is missing,
\* every table entry is written as (key, int(outcome)), the five counters
\* as strings; returns len(entries).
save_checkpoint(tbl, counters, rows, meta) ==
    [db |-> insert_or_replace(rows, tbl),
     metadata |-> insert_or_replace(IF meta = None THEN << >> ELSE meta,
                                    [k \in METADATA_KEYS |-> str(counters[k])]),
     returned |-> Cardinality(DOMAIN tbl)]

\* load_checkpoint(solver): 0 and nothing touched when the file does not
\* exist; else every row is put in solver.table as Outcome(int), the
\* counters found in metadata are parsed into solver.stats, and the number
\* of rows is returned.
load_checkpoint(tbl, counters, rows, meta) ==
    IF meta = None
    THEN [table |-> tbl, stats |-> counters, returned |-> 0]
    ELSE [table |-> insert_or_replace(tbl, rows),
          stats |-> [k \in DOMAIN counters |->
                        IF k \in DOMAIN meta THEN int(meta[k]) ELSE counters[k]],
          returned |-> Cardinality(DOMAIN rows)]

\* The keys the tables of the store runs take.
StoreKeys == ReportKeys

\* The counters of a new Solver, those of test_save_and_load_roundtrip and
\* five different ones.
StoreStats ==
    { SolverStats,
      [positions_evaluated |-> 100, cache_hits |-> 50, terminal_positions |-> 0,
       cycle_draws |-> 0, max_depth |-> 25],
      [positions_evaluated |-> 1000, cache_hits |-> 907, terminal_positions |-> 31,
       cycle_draws |-> 4, max_depth |-> 60] }

store_frame ==
    << state, pc, iterations, stack, path_set, last_report_count,
       report_interval, hook, prune, force, initial_canonical, returned, solves,
       rewritten, depends, table_at_call, root_state, archive,
       shutdown_requested, saved_positions, checkpoints, pushed_after,
       interrupted,
       game_vars, api_vars, bfs_vars, query_vars, report_vars, run_vars >>

\* solver.table[key] = outcome, as the tests fill a Solver.
TableSet(key, outcome) ==
    /\ pc = "idle"
    /\ table' = insert_or_replace(table, [k \in {key} |-> outcome])
    /\ UNCHANGED << stats, db, store_vars, store_frame >>

\* The counters of the Solver are set.
StatsSet(counters) ==
    /\ pc = "idle"
    /\ stats # counters
    /\ stats' = counters
    /\ UNCHANGED << table, db, store_vars, store_frame >>

\* solver = Solver(): an empty table, zero counters; the database is not
\* read.
SolverNew ==
    /\ pc = "idle"
    /\ table # EmptyTable \/ stats # SolverStats
    /\ table' = EmptyTable
    /\ stats' = SolverStats
    /\ UNCHANGED << db, store_vars, store_frame >>

\* save_checkpoint(solver)
SaveCheckpoint ==
    /\ pc = "idle"
    /\ LET saved == save_checkpoint(table, stats, db, metadata)
       IN  /\ db' = saved.db
           /\ metadata' = saved.metadata
           /\ last_save' = [table |-> table, stats |-> stats, before |-> db,
                            returned |-> saved.returned]
    /\ last_load' = None
    /\ UNCHANGED << table, stats, store_frame >>

\* solver2 = Solver(); load_checkpoint(solver2)
LoadCheckpoint ==
    /\ pc = "idle"
    /\ LET loaded == load_checkpoint(EmptyTable, SolverStats, db, metadata)
       IN  /\ table' = loaded.table
           /\ stats' = loaded.stats
           /\ last_load' = [table |-> loaded.table, stats |-> loaded.stats,
                            returned |-> loaded.returned]
    /\ UNCHANGED << db, metadata, last_save, store_frame >>

\* clear_checkpoint(): the database file is deleted.
ClearCheckpoint ==
    /\ pc = "idle"
    /\ metadata # None
    /\ db' = EmptyTable
    /\ metadata' = None
    /\ last_save' = None
    /\ last_load' = None
    /\ UNCHANGED << table, stats, store_frame >>

StoreNext ==
    \/ \E key \in StoreKeys, outcome \in Outcomes : TableSet(key, outcome)
    \/ \E counters \in StoreStats : StatsSet(counters)
    \/ SolverNew
    \/ SaveCheckpoint
    \/ LoadCheckpoint
    \/ ClearCheckpoint

SpecStore == SolverInit /\ [][StoreNext]_vars

(* ---------- solver/minimax.py: the copy-based solver ---------- *)

\* The frames on the stack are those of _solve_iterative.
copy_frames == \A i \in 1..Len(stack) : "state" \in DOMAIN stack[i]

\* solver.solve(root, fast=False, prune=pruning, force=forced) on the Solver
\* at hand, up to the first loop iteration of _solve_iterative.
CopySolveCall(root, pruning, forced) ==
    /\ pc = "idle"
    /\ hook = "default"
    /\ solves < MaxSolves
    /\ LET key == canonical_of(root)
       IN  EnterSolve(entry_of(table, rewritten, forced, key,
                               create_frame([table |-> table,
                                             changed |-> rewritten], root, key)),
                      root, pruning, forced, table, "idle")
    /\ UNCHANGED << last_report_count, report_interval, hook, depends,
                    robust_vars, game_vars, api_vars, bfs_vars, store_vars,
                    query_vars, run_vars >>

\* _create_frame was called on the child: its stored outcome is collected
\* when it has no legal move, else its frame is pushed.
CopyPushChild(depth, item, advanced, created) ==
    /\ table' = created.tc.table
    /\ rewritten' = created.tc.changed
    /\ IF created.frame = None
       THEN /\ stack' = [stack EXCEPT ![depth] =
                   [advanced EXCEPT !.child_outcomes =
                       Append(@, created.tc.table[item.child_canonical])]]
            /\ path_set' = path_set
            /\ stats' = [stats EXCEPT !.terminal_positions =
                             @ + created.terminals]
       ELSE /\ stack' = Append([stack EXCEPT ![depth] = advanced],
                               created.frame)
            /\ path_set' = path_add(path_set, item.child_canonical)
            /\ stats' = [stats EXCEPT
                   !.terminal_positions = @ + created.terminals,
                   !.max_depth = IF depth + 1 > @ THEN depth + 1 ELSE @]

\* What the loop of _solve_iterative does with the child it takes: a
\* repetition draw for a child on the path, the stored outcome of a child in
\* the table, else _create_frame on the child's state.
CopyTakeChild(depth, item, advanced) ==
    IF item.child_canonical \in path_set
    THEN /\ stats' = [stats EXCEPT !.cycle_draws = @ + 1]
         /\ stack' = [stack EXCEPT ![depth] =
                [advanced EXCEPT !.child_outcomes = Append(@, DRAW)]]
         /\ UNCHANGED << table, path_set, rewritten >>
    ELSE IF item.child_canonical \in DOMAIN table
    THEN /\ stats' = [stats EXCEPT !.cache_hits = @ + 1]
         /\ stack' = [stack EXCEPT ![depth] =
                [advanced EXCEPT !.child_outcomes =
                    Append(@, table[item.child_canonical])]]
         /\ UNCHANGED << table, path_set, rewritten >>
    ELSE CopyPushChild(depth, item, advanced,
                       create_frame([table |-> table, changed |-> rewritten],
                                    item.child_state, item.child_canonical))

\* One loop iteration of _solve_iterative that takes the next child of the
\* top frame.
CopySolveChild ==
    /\ pc = "loop"
    /\ Len(stack) > 0
    /\ copy_frames
    /\ LET depth == Len(stack)
           frame == stack[depth]
           cursor == prune_cursor(frame, frame.state.current_player, prune)
       IN  /\ cursor < Len(frame.moves)
           /\ CopyTakeChild(depth, frame.moves[cursor + 1],
                            [frame EXCEPT !.move_idx = cursor + 1])
    /\ iterations' = iterations + 1
    /\ UNCHANGED << state, pc, last_report_count, report_interval, hook, prune,
                    force, initial_canonical, returned, solves, depends,
                    table_at_call, root_state, archive, robust_vars, game_vars,
                    extra_vars >>

\* One loop iteration of _solve_iterative that pops the top frame: its
\* outcome is stored, the progress hook runs when it is due, and the outcome
\* is passed to the parent frame.
CopySolvePop ==
    /\ pc = "loop"
    /\ Len(stack) > 0
    /\ copy_frames
    /\ LET depth == Len(stack)
           frame == stack[depth]
           player == frame.state.current_player
           cursor == prune_cursor(frame, player, prune)
           outcome == frame_outcome(frame, player)
           stored == table_store([table |-> table, changed |-> rewritten],
                                 frame.canonical, outcome)
           evaluated == stats.positions_evaluated + 1
           due == report_due(evaluated, last_report_count, report_interval)
           on_path == cycle_children(frame, path_set)
       IN  /\ cursor >= Len(frame.moves)
           /\ path_set' = path_discard(path_set, frame.canonical)
           /\ table' = stored.table
           /\ rewritten' = stored.changed
           /\ depends' = IF on_path # {} /\ outcome = DRAW
                         THEN [k \in DOMAIN depends \cup {frame.canonical} |->
                                  IF k = frame.canonical THEN on_path
                                  ELSE depends[k]]
                         ELSE depends
           /\ stats' = [stats EXCEPT
                  !.positions_evaluated = evaluated,
                  !.terminal_positions =
                      IF Len(frame.child_outcomes) > 0 THEN @ ELSE @ + 1]
           /\ last_report_count' = IF due THEN evaluated ELSE last_report_count
           /\ reported_at' = IF due THEN evaluated ELSE reported_at
           /\ stack' = append_outcome(SubSeq(stack, 1, depth - 1), outcome)
    /\ iterations' = iterations + 1
    /\ UNCHANGED << state, pc, report_interval, hook, prune, force,
                    initial_canonical, returned, solves, table_at_call,
                    root_state, archive, robust_vars, game_vars, api_vars,
                    bfs_vars, store_vars, query_vars, run_vars >>

\* The moves that take Apart to itself: each player's piece steps down one
\* row and back up.
ThereAndBack ==
    << << <<0, 0>>, NoSize, <<1, 0>> >>, << <<0, 2>>, NoSize, <<1, 2>> >>,
       << <<1, 0>>, NoSize, <<0, 0>> >>, << <<1, 2>>, NoSize, <<0, 2>> >> >>

\* The position after play_move of each of the moves in turn from a
\* position, the history of the recorded positions with it.
RECURSIVE play_on(_, _, _)
play_on(start, moves, n) ==
    IF n = 0 THEN start
    ELSE LET before == play_on(start, moves, n - 1)
         IN  play_move(before,
                       Move(before.current_player, moves[n][3], moves[n][1],
                            moves[n][2]))[1]

\* Apart as set up, and Apart reached again after ThereAndBack was played
\* twice from it.
CompareRoots ==
    {Apart, Chase,
     play_on(Apart, ThereAndBack \o ThereAndBack, 2 * Len(ThereAndBack))}

\* solve(root, fast=True) on a new Solver, then solve(root, fast=False)
\* of the same root with the same prune on another new Solver.
CompareNext ==
    \/ \E root \in CompareRoots, pruning \in BOOLEAN :
          solves = 0 /\ SolveCall(root, pruning, FALSE)
    \/ solves = 1 /\ SolveChild
    \/ solves = 1 /\ SolvePop
    \/ SolveReturn
    \/ NewSolver
    \/ /\ Len(archive) = 1
       /\ table = EmptyTable
       /\ CopySolveCall(archive[1].root, archive[1].prune, FALSE)
    \/ CopySolveChild
    \/ CopySolvePop

SpecCompare == SolverInit /\ [][CompareNext]_vars

(* ---------- solver/run_solver.py ---------- *)

\* The default of --checkpoint-interval.
CHECKPOINT_INTERVAL == 100000

\* Calls of the progress hook followed in one run of run_solver.
MaxRunReports == 3

\* What a save_checkpoint leaves in the history of the store.
save_record(tbl, counters, rows, saved) ==
    [table |-> tbl, stats |-> counters, before |-> rows,
     returned |-> saved.returned]

\* main() of run_solver up to the first loop iteration of solver.solve(): a
\* new Solver, the report interval set, the checkpoint loaded unless --fresh,
\* the handlers and the hook installed, last_checkpoint taken from the
\* counters the load left, then solve() from the initial position, which
\* starts its own counters.  A root found in the table returns at once and
\* the final save_checkpoint follows.
RunSolver(fresh) ==
    /\ pc \in {"idle", "exited"}
    /\ solves < MaxSolves
    /\ LET loaded == IF fresh
                     THEN [table |-> EmptyTable, stats |-> SolverStats,
                           returned |-> 0]
                     ELSE load_checkpoint(EmptyTable, SolverStats, db, metadata)
           entry == solve_entry(loaded.table, {}, GameState, FALSE)
           final == save_checkpoint(entry.table, entry.stats, db, metadata)
       IN  /\ EnterSolve(entry, GameState, TRUE, FALSE, loaded.table, "exited")
           /\ last_checkpoint' = loaded.stats.positions_evaluated
           /\ db' = IF entry.done THEN final.db ELSE db
           /\ metadata' = IF entry.done THEN final.metadata ELSE metadata
           /\ last_save' = IF entry.done
                           THEN save_record(entry.table, entry.stats, db, final)
                           ELSE last_save
           /\ last_load' = IF entry.done THEN None
                           ELSE IF fresh THEN last_load
                           ELSE [table |-> loaded.table, stats |-> loaded.stats,
                                 returned |-> loaded.returned]
    /\ hook' = "run_solver"
    /\ report_interval' = CHECKPOINT_INTERVAL
    /\ last_report_count' = 0
    /\ depends' = EmptyDeps
    /\ shutdown_requested' = FALSE
    /\ interrupted' = "no"
    /\ saved_at' = 0
    /\ UNCHANGED << saved_positions, checkpoints, pushed_after, game_vars,
                    api_vars, bfs_vars, query_vars >>

\* handle_signal of run_solver while the solve runs: the first signal sets
\* the flag, the second calls sys.exit(1), which nothing catches.
RunSolverSignal ==
    /\ pc = "loop"
    /\ hook = "run_solver"
    /\ IF shutdown_requested
       THEN /\ pc' = "exited"
            /\ interrupted' = "SystemExit"
            /\ UNCHANGED shutdown_requested
       ELSE /\ shutdown_requested' = TRUE
            /\ UNCHANGED << pc, interrupted >>
    /\ UNCHANGED << state, solver_vars, iterations, saved_positions, db,
                    checkpoints, pushed_after, game_vars, extra_vars >>

\* The loop of the running solve up to and including the next call of
\* report_with_checkpoint, taken in one step as in SolveToReport:
\* original_report notes the count, the checkpoint is saved when
\* checkpoint_interval positions have been evaluated since last_checkpoint,
\* and a requested shutdown saves and leaves by sys.exit(0).  When the frame
\* that calls the hook is the root's, solve() returns and main() saves the
\* final checkpoint.
RunToReport ==
    /\ pc = "loop"
    /\ hook = "run_solver"
    /\ Len(stack) > 0
    /\ stats.positions_evaluated < MaxRunReports * report_interval
    /\ \E keys \in SUBSET ((ReportKeys \cup {initial_canonical}) \ DOMAIN table) :
          /\ keys # {}
          /\ \E outs \in [keys -> Outcomes] :
                LET tbl == stored_since(table, outs)
                    evaluated == next_report(stats.positions_evaluated,
                                             last_report_count, report_interval)
                    counters == [stats EXCEPT !.positions_evaluated = evaluated]
                    periodic == evaluated - last_checkpoint >= report_interval
                    exits == shutdown_requested
                    finished == ~exits /\ initial_canonical \in keys
                    first == IF periodic
                             THEN save_checkpoint(tbl, counters, db, metadata)
                             ELSE [db |-> db, metadata |-> metadata,
                                   returned |-> 0]
                    last == IF exits \/ finished
                            THEN save_checkpoint(tbl, counters, first.db,
                                                 first.metadata)
                            ELSE first
                IN  /\ table' = tbl
                    /\ stats' = counters
                    /\ last_report_count' = evaluated
                    /\ reported_at' = evaluated
                    /\ iterations' = evaluated
                    /\ last_checkpoint' = IF periodic THEN evaluated
                                          ELSE last_checkpoint
                    /\ saved_at' = IF periodic \/ exits THEN evaluated
                                   ELSE saved_at
                    /\ db' = last.db
                    /\ metadata' = last.metadata
                    /\ last_save' = IF exits \/ finished
                                    THEN save_record(tbl, counters, first.db, last)
                                    ELSE IF periodic
                                    THEN save_record(tbl, counters, db, first)
                                    ELSE last_save
                    /\ last_load' = IF periodic \/ exits \/ finished THEN None
                                    ELSE last_load
                    /\ pc' = IF exits \/ finished THEN "exited" ELSE pc
                    /\ stack' = IF finished THEN <<>> ELSE stack
                    /\ returned' = IF finished THEN << tbl[initial_canonical] >>
                                   ELSE returned
                    /\ archive' = IF finished
                                  THEN Append(archive,
                                           solve_record(root_state, prune, force,
                                                        table_at_call, tbl,
                                                        tbl[initial_canonical]))
                                  ELSE archive
    /\ UNCHANGED << state, path_set, report_interval, hook, prune, force,
                    initial_canonical, solves, rewritten, depends, table_at_call,
                    root_state, shutdown_requested, saved_positions, checkpoints,
                    pushed_after, interrupted, game_vars, api_vars, bfs_vars,
                    query_vars >>

RunSolverNext ==
    \/ \E fresh \in BOOLEAN : RunSolver(fresh)
    \/ RunSolverSignal
    \/ RunToReport

SpecRunSolver == SolverInit /\ [][RunSolverNext]_vars

(* ---------- solver/overnight_solve.py, solver/unpruned_solve.py ---------- *)

OVERNIGHT_REPORT_INTERVAL == 50000

OVERNIGHT_CHECKPOINT_INTERVAL == 100000

UNPRUNED_REPORT_INTERVAL == 25000

UNPRUNED_CHECKPOINT_INTERVAL == 50000

\* The two scripts, by the hook they install.
Scripts == {"overnight", "unpruned"}

script_report_interval(script) ==
    IF script = "overnight" THEN OVERNIGHT_REPORT_INTERVAL
    ELSE UNPRUNED_REPORT_INTERVAL

checkpoint_interval(script) ==
    IF script = "overnight" THEN OVERNIGHT_CHECKPOINT_INTERVAL
    ELSE UNPRUNED_CHECKPOINT_INTERVAL

\* main() of the script up to the first loop iteration of solver.solve(): a
\* new Solver, the checkpoint loaded, the handlers and the hook installed,
\* last_checkpoint = 0, then solve(fast=use_fast) in overnight_solve and
\* solve(fast=True, prune=False, force=True) in unpruned_solve.  A root that
\* solve() answers from the table returns at once and the final
\* save_checkpoint follows.
ScriptSolve(script) ==
    /\ pc \in {"idle", "exited"}
    /\ solves < MaxSolves
    /\ LET loaded == load_checkpoint(EmptyTable, SolverStats, db, metadata)
           forced == script = "unpruned"
           entry == solve_entry(loaded.table, {}, GameState, forced)
           final == save_checkpoint(entry.table, entry.stats, db, metadata)
       IN  /\ EnterSolve(entry, GameState, ~forced, forced, loaded.table,
                         "exited")
           /\ db' = IF entry.done THEN final.db ELSE db
           /\ metadata' = IF entry.done THEN final.metadata ELSE metadata
           /\ last_save' = IF entry.done
                           THEN save_record(entry.table, entry.stats, db, final)
                           ELSE last_save
           /\ last_load' = IF entry.done THEN None
                           ELSE [table |-> loaded.table, stats |-> loaded.stats,
                                 returned |-> loaded.returned]
    /\ hook' = script
    /\ report_interval' = script_report_interval(script)
    /\ last_report_count' = 0
    /\ last_checkpoint' = 0
    /\ depends' = EmptyDeps
    /\ shutdown_requested' = FALSE
    /\ interrupted' = "no"
    /\ saved_at' = 0
    /\ UNCHANGED << saved_positions, checkpoints, pushed_after, game_vars,
                    api_vars, bfs_vars, query_vars >>

\* handle_signal of the two scripts while the solve runs: the first signal
\* sets the flag, the second calls sys.exit(1), which nothing catches.
ScriptSignal ==
    /\ pc = "loop"
    /\ hook \in Scripts
    /\ IF shutdown_requested
       THEN /\ pc' = "exited"
            /\ interrupted' = "SystemExit"
            /\ UNCHANGED shutdown_requested
       ELSE /\ shutdown_requested' = TRUE
            /\ UNCHANGED << pc, interrupted >>
    /\ UNCHANGED << state, solver_vars, iterations, saved_positions, db,
                    checkpoints, pushed_after, game_vars, extra_vars >>

\* The loop of the running solve up to and including the next call of
\* report_with_checkpoint, taken in one step as in SolveToReport:
\* original_report notes the count and the checkpoint is saved when
\* checkpoint_interval positions have been evaluated since last_checkpoint;
\* shutdown_requested is not read.  When the frame that calls the hook is the
\* root's, solve() returns and main() saves the final checkpoint, once more
\* when shutdown was requested.
ScriptToReport ==
    /\ pc = "loop"
    /\ hook \in Scripts
    /\ Len(stack) > 0
    /\ stats.positions_evaluated < MaxRunReports * report_interval
    /\ \E keys \in SUBSET ((ReportKeys \ DOMAIN table) \cup
                          (IF force THEN {initial_canonical}
                           ELSE {initial_canonical} \ DOMAIN table)) :
          /\ keys # {}
          /\ \E outs \in [keys -> Outcomes] :
                LET tbl == stored_since(table, outs)
                    evaluated == next_report(stats.positions_evaluated,
                                             last_report_count, report_interval)
                    counters == [stats EXCEPT !.positions_evaluated = evaluated]
                    periodic == evaluated - last_checkpoint >=
                                    checkpoint_interval(hook)
                    finished == initial_canonical \in keys
                    first == IF periodic
                             THEN save_checkpoint(tbl, counters, db, metadata)
                             ELSE [db |-> db, metadata |-> metadata,
                                   returned |-> 0]
                    last == IF finished
                            THEN save_checkpoint(tbl, counters, first.db,
                                                 first.metadata)
                            ELSE first
                IN  /\ table' = tbl
                    /\ stats' = counters
                    /\ last_report_count' = evaluated
                    /\ reported_at' = evaluated
                    /\ iterations' = evaluated
                    /\ last_checkpoint' = IF periodic THEN evaluated
                                          ELSE last_checkpoint
                    /\ saved_at' = IF periodic THEN evaluated ELSE saved_at
                    /\ db' = last.db
                    /\ metadata' = last.metadata
                    /\ last_save' = IF finished
                                    THEN save_record(tbl, counters, first.db, last)
                                    ELSE IF periodic
                                    THEN save_record(tbl, counters, db, first)
                                    ELSE last_save
                    /\ last_load' = IF periodic \/ finished THEN None
                                    ELSE last_load
                    /\ pc' = IF finished THEN "exited" ELSE pc
                    /\ stack' = IF finished THEN <<>> ELSE stack
                    /\ returned' = IF finished THEN << tbl[initial_canonical] >>
                                   ELSE returned
                    /\ archive' = IF finished
                                  THEN Append(archive,
                                           solve_record(root_state, prune, force,
                                                        table_at_call, tbl,
                                                        tbl[initial_canonical]))
                                  ELSE archive
    /\ UNCHANGED << state, path_set, report_interval, hook, prune, force,
                    initial_canonical, solves, rewritten, depends, table_at_call,
                    root_state, shutdown_requested, saved_positions, checkpoints,
                    pushed_after, interrupted, game_vars, api_vars, bfs_vars,
                    query_vars >>

ScriptsNext ==
    \/ \E script \in Scripts : ScriptSolve(script)
    \/ ScriptSignal
    \/ ScriptToReport

SpecScripts == SolverInit /\ [][ScriptsNext]_vars

(* ---------- a walk over positions with apply and undo ---------- *)

\* Moves applied on top of a start position in one walk.
MaxPlies == 2

StartPositions == {GameState, DoubleReveal, SingleReveal, RevealRow, RevealNoSave}

in_seq(x, seq) == \E i \in 1..Len(seq) : seq[i] = x

\* apply_move_in_place on a move generate_moves returns.
ApplyMove(move) ==
    /\ pc = "walk"
    /\ result = ONGOING
    /\ Len(undo_stack) < MaxPlies
    /\ in_seq(move, generate_moves(state))
    /\ LET applied == apply_move_in_place(state, move)
       IN  /\ state' = applied.state
           /\ result' = applied.result
           /\ undo_stack' = Append(undo_stack, applied.undo)
           /\ snapshots' = Append(snapshots, state)
           /\ last_op' = << "apply", applied.result, "none" >>
    /\ UNCHANGED << solver_vars, robust_vars, pc, iterations, start_position,
                    extra_vars >>

\* apply_move_in_place on a slide the gobble rule allows but the reveal rule
\* does not: generate_basic_moves has it, generate_moves does not.
ApplyBasicMove(move) ==
    /\ pc = "walk"
    /\ result = ONGOING
    /\ Len(undo_stack) < MaxPlies
    /\ in_seq(move, generate_basic_moves(state))
    /\ ~in_seq(move, generate_moves(state))
    /\ LET applied == apply_move_in_place(state, move)
       IN  /\ state' = applied.state
           /\ result' = applied.result
           /\ undo_stack' = Append(undo_stack, applied.undo)
           /\ snapshots' = Append(snapshots, state)
           /\ last_op' = << "apply_basic", applied.result, "none" >>
    /\ UNCHANGED << solver_vars, robust_vars, pc, iterations, start_position,
                    extra_vars >>

\* undo_move_in_place with the UndoInfo of the last applied move.
UndoMove ==
    /\ pc = "walk"
    /\ Len(undo_stack) > 0
    /\ state' = undo_move_in_place(state, undo_stack[Len(undo_stack)])
    /\ result' = ONGOING
    /\ undo_stack' = SubSeq(undo_stack, 1, Len(undo_stack) - 1)
    /\ snapshots' = SubSeq(snapshots, 1, Len(snapshots) - 1)
    /\ last_op' = << "undo", result, last_op[1] >>
    /\ UNCHANGED << solver_vars, robust_vars, pc, iterations, start_position,
                    extra_vars >>

AllMoves ==
    {Move(player, to_pos, from_pos, NoSize) :
        player \in Player, to_pos \in Positions, from_pos \in Positions}
    \cup {Move(player, to_pos, None, size) :
        player \in Player, to_pos \in Positions, size \in {SMALL, MEDIUM, LARGE}}

WalkInit ==
    /\ start_position \in StartPositions
    /\ state = start_position
    /\ pc = "walk"
    /\ iterations = 0
    /\ SolverIdle
    /\ RobustIdle
    /\ ExtraIdle
    /\ undo_stack = <<>>
    /\ snapshots = <<>>
    /\ result = ONGOING
    /\ last_op = << "none", ONGOING, "none" >>

WalkNext ==
    \/ \E move \in AllMoves : ApplyMove(move)
    \/ \E move \in AllMoves : ApplyBasicMove(move)
    \/ UndoMove

SpecWalk == WalkInit /\ [][WalkNext]_vars

(* ---------- queries of a Solver whose table was filled by hand ---------- *)

\* test_best_move_chooses_win: Player.ONE's Small at (0,0) and Medium at
\* (0,1), Player.ONE to move.
TwoInRow ==
    set_up(<< <<ONE, SMALL, <<0, 0>> >>, <<ONE, MEDIUM, <<0, 1>> >> >>,
           [GameState.reserves EXCEPT ![ONE][SMALL] = 1, ![ONE][MEDIUM] = 1],
           ONE)

\* Player.ONE's only piece under a Player.TWO Large, nothing in reserve:
\* Player.ONE has no legal move.
Buried ==
    set_up(<< <<ONE, SMALL, <<0, 0>> >>, <<TWO, LARGE, <<0, 0>> >> >>,
           NoReserves, ONE)

\* The same with the colours exchanged, positions without a move that wins
\* at once and one without a move.
QueryPositions ==
    { TwoInRow,
      set_up(<< <<TWO, SMALL, <<0, 0>> >>, <<TWO, MEDIUM, <<0, 1>> >> >>,
             [GameState.reserves EXCEPT ![TWO][SMALL] = 1, ![TWO][MEDIUM] = 1],
             TWO),
      GameState, Cornered, LargePair, Buried }

\* The children of a position whose outcome a table of the queries may
\* hold: those of its first, second and last move that leave the game
\* ongoing.
query_keys(st) ==
    LET moves == generate_moves(st)
        ongoing == SelectSeq([i \in 1..Len(moves) |-> play_move(st, moves[i])],
                             LAMBDA done : done[2] = ONGOING)
    IN  {canonical_of(ongoing[i][1]) :
            i \in {1, 2, Len(ongoing)} \cap (1..Len(ongoing))}

\* solver.get_best_move(state)
GetBestMove ==
    /\ pc = "query"
    /\ answer' = << "get_best_move", get_best_move(table, state) >>
    /\ pc' = "answered"
    /\ UNCHANGED << state, iterations, solver_vars, robust_vars, game_vars,
                    api_vars, bfs_vars, store_vars, report_vars, run_vars >>

\* A new Solver whose table holds outcomes for some children of the
\* position it is asked about.
QueryInit ==
    /\ state \in QueryPositions
    /\ pc = "query"
    /\ iterations = 0
    /\ \E keys \in SUBSET query_keys(state) : table \in [keys -> Outcomes]
    /\ stack = <<>>
    /\ path_set = {}
    /\ stats = SolverStats
    /\ last_report_count = 0
    /\ report_interval = DEFAULT_REPORT_INTERVAL
    /\ hook = "default"
    /\ prune = TRUE
    /\ force = FALSE
    /\ initial_canonical = None
    /\ returned = None
    /\ solves = 0
    /\ rewritten = {}
    /\ depends = EmptyDeps
    /\ table_at_call = EmptyTable
    /\ root_state = GameState
    /\ archive = <<>>
    /\ RobustIdle
    /\ ExtraIdle
    /\ undo_stack = <<>>
    /\ snapshots = <<>>
    /\ result = ONGOING
    /\ last_op = << "none", ONGOING, "none" >>
    /\ start_position = GameState

QueryNext == GetBestMove

SpecQuery == QueryInit /\ [][QueryNext]_vars

(* ---------- gobblet/game.py: a game played with play_move ---------- *)

\* Moves played in one game.
MaxPlayPlies == 10

\* The moves the games are played with: a Small to two opposite corners
\* and the slides between each corner and the cell next to it.
PlayMoves ==
    {Move(player, to_pos, None, SMALL) :
        player \in Player, to_pos \in {<<0, 0>>, <<2, 2>>}}
    \cup {Move(player, to_pos, from_pos, NoSize) :
            player \in Player,
            from_pos \in {<<0, 0>>, <<0, 1>>, <<2, 2>>, <<2, 1>>},
            to_pos \in {<<0, 0>>, <<0, 1>>, <<2, 2>>, <<2, 1>>}}

\* state, result = play_move(state, move) on a move generate_moves returns,
\* as test_equivalence_on_random_positions continues a game: the position
\* keeps the history of the positions recorded so far.
PlayMove(move) ==
    /\ pc = "play"
    /\ Len(state.position_history) < MaxPlayPlies
    /\ in_seq(move, generate_moves(state))
    /\ LET done == play_move(state, move)
       IN  /\ state' = done[1]
           /\ result' = done[2]
           /\ last_op' = << "play", done[2], "none" >>
    /\ UNCHANGED << solver_vars, robust_vars, pc, iterations, undo_stack,
                    snapshots, start_position, extra_vars >>

PlayInit ==
    /\ state = GameState
    /\ pc = "play"
    /\ iterations = 0
    /\ SolverIdle
    /\ RobustIdle
    /\ ExtraIdle
    /\ undo_stack = <<>>
    /\ snapshots = <<>>
    /\ result = ONGOING
    /\ last_op = << "none", ONGOING, "none" >>
    /\ start_position = GameState

PlayNext == \E move \in PlayMoves : PlayMove(move)

SpecPlay == PlayInit /\ [][PlayNext]_vars

(* ---------- api/main.py ---------- *)

\* Moves a game played through the API may hold, and the notations an
\* import may carry.
MaxApiMoves == 2
MaxNotations == 2

\* The cells the requests of the model name.
ApiCells == { <<0, 0>>, <<1, 1>> }

\* The module globals.
api_globals ==
    [game |-> game, state_snapshots |-> state_snapshots,
     move_notations |-> move_notations, current_index |-> current_index]

\* _reset_history.
reset_history ==
    [game |-> Game(GameState), state_snapshots |-> << GameState >>,
     move_notations |-> <<>>, current_index |-> 0]

\* state_snapshots[current_index] of the globals g.
current_snapshot(g) == g.state_snapshots[g.current_index + 1]

\* _get_current_result on a snapshot.
get_current_result(current_state) ==
    LET w == check_winner(current_state)
    IN  IF w # NoPlayer THEN winner(w)
        ELSE IF is_threefold_repetition(current_state) THEN DRAW_RESULT
        ELSE IF Len(generate_moves(current_state)) = 0
        THEN winner(opponent(current_state.current_player))
        ELSE ONGOING

\* A reply: state_to_model of the current snapshot with status 200, or an
\* HTTPException with status 400.
ok_model(g, game_result) ==
    [status |-> 200, detail |-> "", state |-> current_snapshot(g),
     result |-> game_result, move_index |-> g.current_index]

http_400(detail) ==
    [status |-> 400, detail |-> detail, state |-> None, result |-> None,
     move_index |-> 0]

\* What a handler leaves: the globals and the reply.
served(g, reply) == [globals |-> g, response |-> reply]

\* A move that is appended behind the whole history, the future kept.
with_move_keeps_future(g, applied, notation) ==
    [game |-> applied.game,
     state_snapshots |-> Append(g.state_snapshots, applied.game.state),
     move_notations |-> Append(g.move_notations, notation),
     current_index |-> g.current_index + 1]

\* The globals after a legal move has been applied to a Game of the
\* current snapshot: the future is cut off, the new state and the notation
\* are appended.
with_move(g, applied, notation) ==
    [game |-> applied.game,
     state_snapshots |->
         Append(SubSeq(g.state_snapshots, 1, g.current_index + 1),
                applied.game.state),
     move_notations |->
         Append(SubSeq(g.move_notations, 1, g.current_index), notation),
     current_index |-> g.current_index + 1]

\* make_move from the legality test on.
make_legal_move(g, game_move) ==
    IF ~in_seq(game_move, get_legal_moves(Game(current_snapshot(g))))
    THEN served(g, http_400("Illegal move"))
    ELSE LET moved == with_move(g, apply_move(Game(current_snapshot(g)),
                                              game_move),
                                move_to_notation(game_move))
         IN  served(moved, ok_model(moved, moved.game.result))

\* POST /move.  A request is [to_pos, from_pos, size], from_pos None and
\* size NoSize when the field is absent.
make_move(g, move) ==
    IF get_current_result(current_snapshot(g)) # ONGOING
    THEN served(g, http_400("Game is already over"))
    ELSE IF move.from_pos # None
    THEN make_legal_move(g, Move(current_snapshot(g).current_player,
                                 move.to_pos, move.from_pos, NoSize))
    ELSE IF move.size = NoSize
    THEN served(g, http_400("Size required for reserve placement"))
    ELSE make_legal_move(g, Move(current_snapshot(g).current_player,
                                 move.to_pos, None, move.size))

\* POST /undo, /redo, /goto/{move_index}.
api_undo(g) ==
    IF g.current_index <= 0
    THEN served(g, http_400("Nothing to undo"))
    ELSE LET back == [g EXCEPT
                 !.current_index = @ - 1,
                 !.game = Game(g.state_snapshots[g.current_index])]
         IN  served(back, ok_model(back,
                              get_current_result(current_snapshot(back))))

api_redo(g) ==
    IF g.current_index >= Len(g.state_snapshots) - 1
    THEN served(g, http_400("Nothing to redo"))
    ELSE LET forth == [g EXCEPT
                  !.current_index = @ + 1,
                  !.game = Game(g.state_snapshots[g.current_index + 2])]
         IN  served(forth, ok_model(forth,
                               get_current_result(current_snapshot(forth))))

goto_move(g, move_index) ==
    IF move_index < 0 \/ move_index >= Len(g.state_snapshots)
    THEN served(g, http_400("Invalid move index"))
    ELSE LET there == [g EXCEPT
                  !.current_index = move_index,
                  !.game = Game(g.state_snapshots[move_index + 1])]
         IN  served(there, ok_model(there,
                               get_current_result(current_snapshot(there))))

\* POST /reset.
reset_game == served(reset_history, ok_model(reset_history, ONGOING))

\* import_game, the replay loop from notation i on, g being the globals the
\* loop has reached.
RECURSIVE replay(_, _, _)
replay_move(g, notations, i, move) ==
    IF move = None
    THEN served(g, http_400("Invalid move notation"))
    ELSE IF ~in_seq(move, get_legal_moves(Game(current_snapshot(g))))
    THEN served(g, http_400("Illegal move"))
    ELSE replay(with_move(g, apply_move(Game(current_snapshot(g)), move),
                          notations[i]),
                notations, i + 1)

replay(g, notations, i) ==
    IF i > Len(notations) \/ (i > 1 /\ g.game.result # ONGOING)
    THEN served(g, ok_model(g, get_current_result(current_snapshot(g))))
    ELSE replay_move(g, notations, i,
             notation_to_move(notations[i],
                              current_snapshot(g).current_player))

\* POST /import: an empty text resets; otherwise the history is reset and
\* the notations are replayed one by one.
import_game(notations) ==
    IF Len(notations) = 0
    THEN served(reset_history, ok_model(reset_history, ONGOING))
    ELSE replay(reset_history, notations, 1)

\* import_state once base64_to_state has returned or raised.
import_decoded(g, done) ==
    IF done.error # NoError
    THEN served(g, http_400("Invalid state encoding"))
    ELSE LET fresh == [game |-> Game(done.state),
                       state_snapshots |-> << done.state >>,
                       move_notations |-> <<>>, current_index |-> 0]
         IN  served(fresh, ok_model(fresh,
                               get_current_result(done.state)))

\* POST /state/import, encoded being the integer base64_to_int gives for
\* the text of the request.
import_state(g, encoded) == import_decoded(g, decode_state(encoded))

\* A request has been served: the globals and the reply it leaves.
Serve(asked, done) ==
    /\ pc = "api"
    /\ game' = done.globals.game
    /\ state_snapshots' = done.globals.state_snapshots
    /\ move_notations' = done.globals.move_notations
    /\ current_index' = done.globals.current_index
    /\ response' = done.response
    /\ request' = asked
    /\ before_request' = api_globals
    /\ UNCHANGED << state, pc, iterations, solver_vars, robust_vars,
                    game_vars, bfs_vars, store_vars, query_vars,
                    report_vars, run_vars >>

MoveRequests ==
    [to_pos : ApiCells, from_pos : ApiCells \cup {None},
     size : {NoSize, SMALL, LARGE}]

MakeMove ==
    \E move \in MoveRequests :
        /\ Len(state_snapshots) <= MaxApiMoves
        /\ Serve([op |-> "make_move", arg |-> move],
                 make_move(api_globals, move))

Undo == Serve([op |-> "undo", arg |-> None], api_undo(api_globals))

Redo == Serve([op |-> "redo", arg |-> None], api_redo(api_globals))

GotoMove ==
    \E move_index \in -1..(MaxApiMoves + 1) :
        Serve([op |-> "goto", arg |-> move_index],
              goto_move(api_globals, move_index))

ResetGame == Serve([op |-> "reset", arg |-> None], reset_game)

\* The notations of the imports: a placement that is always legal first, a
\* placement that is not legal once the cell holds a Large, a slide, a row
\* out of range and a text that is no notation.
ImportNotations ==
    { << "L", 0, 0 >>, << "S", 0, 0 >>, << 0, 0, 1, 1 >>, << "M", 3, 0 >>,
      << "?" >> }

RECURSIVE seqs_upto(_, _)
seqs_upto(S, n) ==
    IF n = 0 THEN { <<>> }
    ELSE LET shorter == seqs_upto(S, n - 1)
         IN  shorter \cup {Append(q, x) : q \in shorter, x \in S}

ImportGame ==
    \E notations \in seqs_upto(ImportNotations, MaxNotations) :
        Serve([op |-> "import_game", arg |-> notations],
              import_game(notations))

\* An encoded value with the given cell groups (cell index |-> 6 bits),
\* bits 54..59 and bits 60..63.
encoded_with(cells, upper, top) ==
    [k \in 1..11 |->
        IF k <= 9 THEN (IF k \in DOMAIN cells THEN cells[k] ELSE 0)
        ELSE IF k = 10 THEN upper ELSE top]

\* The values of the state imports: the empty board, one Player.ONE Small
\* with Player.TWO to move, row 0 of Player.ONE Smalls, three Player.ONE
\* Smalls off a line, a slot holding 3, bit 55 set, bit 63 set.
ImportValues ==
    { encoded_with(<<>>, 0, 0), encoded_with(<< 1 >>, 1, 0),
      encoded_with(<< 1, 1, 1 >>, 1, 0),
      encoded_with(<< 1, 1, 0, 0, 0, 1 >>, 1, 0),
      encoded_with(<< 3 >>, 0, 0), encoded_with(<< 1 >>, 3, 0),
      encoded_with(<< 1 >>, 1, 8) }

ImportState ==
    \E encoded \in ImportValues :
        Serve([op |-> "import_state", arg |-> encoded],
              import_state(api_globals, encoded))

ApiInit ==
    /\ state = GameState
    /\ pc = "api"
    /\ iterations = 0
    /\ SolverIdle
    /\ RobustIdle
    /\ ExtraIdle
    /\ undo_stack = <<>>
    /\ snapshots = <<>>
    /\ result = ONGOING
    /\ last_op = << "none", ONGOING, "none" >>
    /\ start_position = GameState

ApiNext ==
    \/ MakeMove
    \/ Undo
    \/ Redo
    \/ GotoMove
    \/ ResetGame
    \/ ImportGame
    \/ ImportState

SpecApi == ApiInit /\ [][ApiNext]_vars

(* ---------- solver/collect_positions.py ---------- *)

\* unsolved[canonical] = depth
record_depth(depths, canonical, depth) ==
    [k \in DOMAIN depths \cup {canonical} |->
        IF k = canonical THEN depth ELSE depths[k]]

\* A child recorded at the depth of its parent.
parent_depth(depth) == depth

\* The depth of a child of an entry dequeued at depth.
child_depth(depth) == depth + 1

\* A child that is new is recorded and also enqueued, whether the table
\* holds it or not.
visit_child_enqueues(seen, child_canonical, depth, tbl) ==
    LET marked == [seen EXCEPT !.visited = @ \cup {child_canonical}]
    IN  IF child_canonical \in seen.visited THEN seen
        ELSE IF child_canonical \notin DOMAIN tbl
        THEN [marked EXCEPT
                 !.unsolved = record_depth(@, child_canonical,
                                           child_depth(depth)),
                 !.recorded = Append(@, child_canonical),
                 !.queue = Append(@, << child_canonical, child_depth(depth) >>),
                 !.enqueued = Append(@, child_canonical)]
        ELSE [marked EXCEPT
                 !.queue = Append(@, << child_canonical, child_depth(depth) >>),
                 !.enqueued = Append(@, child_canonical)]

\* The body of "if result == GameResult.ONGOING": a child not yet visited is
\* marked, then recorded when the table misses it and enqueued when the
\* table holds it.
visit_child(seen, child_canonical, depth, tbl) ==
    LET marked == [seen EXCEPT !.visited = @ \cup {child_canonical}]
    IN  IF child_canonical \in seen.visited THEN seen
        ELSE IF child_canonical \notin DOMAIN tbl
        THEN [marked EXCEPT
                 !.unsolved = record_depth(@, child_canonical,
                                           child_depth(depth)),
                 !.recorded = Append(@, child_canonical)]
        ELSE [marked EXCEPT
                 !.queue = Append(@, << child_canonical, child_depth(depth) >>),
                 !.enqueued = Append(@, child_canonical)]

\* A pass that leaves the move applied.
visit_move_applied(seen, applied, depth, tbl) ==
    LET after == IF applied.result = ONGOING
                 THEN visit_child(seen, canonical_of(applied.state), depth, tbl)
                 ELSE seen
    IN  [after EXCEPT !.state = applied.state]

\* One pass of "for move in generate_moves(state)": apply in place, visit
\* the child of an ONGOING result, undo.
visit_move(seen, applied, depth, tbl) ==
    LET after == IF applied.result = ONGOING
                 THEN visit_child(seen, canonical_of(applied.state), depth, tbl)
                 ELSE seen
    IN  [after EXCEPT
            !.state = undo_move_in_place(applied.state, applied.undo)]

\* What the enumeration holds between two passes of its loops.
bfs_locals ==
    [state |-> state, unsolved |-> unsolved, visited |-> visited,
     queue |-> queue, recorded |-> recorded, enqueued |-> enqueued]

\* enumerate_all_unsolved_with_depth is called on the solver: the locals
\* of _enumerate_with_encoding_queue before its loop.
EnumerateCall ==
    /\ pc = "idle"
    /\ pc' = "bfs"
    /\ state' = GameState
    /\ unsolved' = EmptyDepths
    /\ visited' = {canonical_of(GameState)}
    /\ queue' = << << canonical_of(GameState), 0 >> >>
    /\ nodes_explored' = 0
    /\ exit_reason' = "none"
    /\ expanded' = <<>>
    /\ recorded' = <<>>
    /\ enqueued' = << canonical_of(GameState) >>
    /\ pending_moves' = <<>>
    /\ entry_depth' = 0
    /\ UNCHANGED << stop_flag, iterations, solver_vars, robust_vars, game_vars,
                    api_vars, store_vars, query_vars, report_vars, run_vars >>

\* set_stop_flag: a signal arrives while the enumeration runs.
SetStopFlag ==
    /\ pc \in {"bfs", "bfs_moves"}
    /\ ~stop_flag
    /\ stop_flag' = TRUE
    /\ UNCHANGED << state, pc, unsolved, visited, queue, nodes_explored,
                    exit_reason, expanded, recorded, enqueued, pending_moves,
                    entry_depth, iterations, solver_vars, robust_vars,
                    game_vars, api_vars, store_vars, query_vars,
                    report_vars, run_vars >>

\* An iteration of "while queue" that reaches queue.popleft(): the entry is
\* dequeued and decoded, its moves are generated.
EnumerateStep ==
    /\ pc = "bfs"
    /\ Len(queue) > 0
    /\ ~stop_flag
    /\ LET decoded == decode_state(Head(queue)[1]).state
           moves == generate_moves(decoded)
       IN  /\ state' = decoded
           /\ pending_moves' = moves
           /\ pc' = IF Len(moves) = 0 THEN "bfs" ELSE "bfs_moves"
    /\ entry_depth' = Head(queue)[2]
    /\ queue' = Tail(queue)
    /\ nodes_explored' = nodes_explored + 1
    /\ expanded' = Append(expanded, Head(queue)[1])
    /\ UNCHANGED << unsolved, visited, stop_flag, exit_reason, recorded,
                    enqueued, iterations, solver_vars, robust_vars, game_vars,
                    api_vars, store_vars, query_vars, report_vars, run_vars >>

\* One pass of "for move in generate_moves(state)".
EnumerateMove ==
    /\ pc = "bfs_moves"
    /\ LET seen == visit_move(bfs_locals,
                              apply_move_in_place(state, Head(pending_moves)),
                              entry_depth, table)
       IN  /\ state' = seen.state
           /\ unsolved' = seen.unsolved
           /\ visited' = seen.visited
           /\ queue' = seen.queue
           /\ recorded' = seen.recorded
           /\ enqueued' = seen.enqueued
    /\ pending_moves' = Tail(pending_moves)
    /\ pc' = IF Len(pending_moves) = 1 THEN "bfs" ELSE "bfs_moves"
    /\ UNCHANGED << entry_depth, nodes_explored, stop_flag, exit_reason,
                    expanded, iterations, solver_vars, robust_vars, game_vars,
                    api_vars, store_vars, query_vars, report_vars, run_vars >>

\* The loop is left and unsolved is returned.
leave_loop(reason) ==
    /\ pc = "bfs"
    /\ pc' = "bfs_returned"
    /\ exit_reason' = reason
    /\ UNCHANGED << state, unsolved, visited, queue, nodes_explored, stop_flag,
                    expanded, recorded, enqueued, pending_moves, entry_depth,
                    iterations, solver_vars, robust_vars, game_vars, api_vars,
                    store_vars, query_vars, report_vars, run_vars >>

\* "if timeout_sec is not None and elapsed >= timeout_sec: break"
EnumerateTimeout == Len(queue) > 0 /\ leave_loop("timeout")

\* "if stop_flag is not None and stop_flag[0]: break"
EnumerateStop == Len(queue) > 0 /\ stop_flag /\ leave_loop("stop")

\* "while queue" finds the queue empty.
EnumerateReturn == Len(queue) = 0 /\ leave_loop("complete")

\* The moves of four positions that follow one another from the initial
\* one: a Small on a corner, a Small beside it, the first Small moved to
\* the centre, the second moved to the far corner.
SolvedLine ==
    << << None, SMALL, << 0, 0 >> >>, << None, SMALL, << 0, 1 >> >>,
       << << 0, 0 >>, NoSize, << 1, 1 >> >>,
       << << 0, 1 >>, NoSize, << 2, 2 >> >> >>

\* The keys a table of the enumeration is made of: the initial position and
\* the first three positions of SolvedLine.
SolvedKeys == {canonical_of(played(SubSeq(SolvedLine, 1, n))) : n \in 0..3}

\* The tables the enumeration is called with: a Solver whose table
\* load_checkpoint filled with any of the keys.
BfsTables == {[k \in keys |-> DRAW] : keys \in SUBSET SolvedKeys}

BfsInit ==
    /\ state = GameState
    /\ pc = "idle"
    /\ iterations = 0
    /\ table \in BfsTables
    /\ stack = <<>>
    /\ path_set = {}
    /\ stats = SolverStats
    /\ last_report_count = 0
    /\ report_interval = DEFAULT_REPORT_INTERVAL
    /\ hook = "default"
    /\ prune = TRUE
    /\ force = FALSE
    /\ initial_canonical = None
    /\ returned = None
    /\ solves = 0
    /\ rewritten = {}
    /\ depends = EmptyDeps
    /\ table_at_call = EmptyTable
    /\ root_state = GameState
    /\ archive = <<>>
    /\ RobustIdle
    /\ ExtraIdle
    /\ undo_stack = <<>>
    /\ snapshots = <<>>
    /\ result = ONGOING
    /\ last_op = << "none", ONGOING, "none" >>
    /\ start_position = GameState

BfsNext ==
    \/ EnumerateCall
    \/ SetStopFlag
    \/ EnumerateStep
    \/ EnumerateMove
    \/ EnumerateTimeout
    \/ EnumerateStop
    \/ EnumerateReturn

SpecBfs == BfsInit /\ [][BfsNext]_vars

(* ---------- properties of the walk ---------- *)

\* C1: undoing the last applied move with its UndoInfo restores the position
\* the move was applied to (every stack, every reserve count, the side to
\* move), whether the move left the game ongoing or ended it; and when the
\* last move of a sequence has been undone the position is the one the
\* sequence started from.  (Slides outside generate_moves, which end in a
\* reveal loss, are applied and undone in the walk as well.)
ApplyUndoRoundtrip ==
    [][Len(undo_stack') < Len(undo_stack)
        => /\ state' = snapshots[Len(snapshots)]
           /\ (undo_stack' = <<>> => state' = start_position)]_vars

\* A move from generate_moves that ended the game has just been undone and
\* the walk is back at its start.
ApplyUndoRoundtripWitness ==
    /\ last_op[1] = "undo"
    /\ last_op[2] # ONGOING
    /\ last_op[3] = "apply"
    /\ undo_stack = <<>>
    /\ state = start_position

\* The lines the opponent owns once the top of from_pos is lifted.
exposed_lines(st, from_pos) ==
    get_winning_lines(remove_top(st, from_pos), opponent(st.current_player))

in_line(pos, line) == \E i \in 1..3 : line[i] = pos

\* A slide is accepted: generate_moves emits it and apply_move_in_place
\* completes it.
slide_accepted(st, move) ==
    /\ in_seq(move, generate_moves(st))
    /\ apply_move_in_place(st, move).undo.move_completed

slide_targets(st, from_pos) ==
    {to_pos \in Positions :
        in_seq(Move(st.current_player, to_pos, from_pos, NoSize), generate_moves(st))}

\* C5: a slide whose lift exposes opponent lines is accepted only if its
\* destination differs from the origin, lies in every exposed line and the
\* lifted piece is strictly larger than the destination's top; and with a
\* Player.ONE Large over a Player.TWO Small at (0,2) and Player.TWO Smalls at
\* (0,0) and (0,1) the slides from (0,2) go exactly to (0,0) and (0,1).
RevealEveryLine ==
    /\ result = ONGOING =>
         \A from_pos \in Positions, to_pos \in Positions :
            LET top == get_top(state, from_pos)
                lines == exposed_lines(state, from_pos)
                move == Move(state.current_player, to_pos, from_pos, NoSize)
            IN  (/\ top # None
                 /\ top.player = state.current_player
                 /\ Len(lines) > 0
                 /\ slide_accepted(state, move))
                => /\ to_pos # from_pos
                   /\ \A k \in 1..Len(lines) : in_line(to_pos, lines[k])
                   /\ get_top(state, to_pos) # None
                   /\ can_gobble(top, get_top(state, to_pos))
    /\ state = RevealRow => slide_targets(state, <<0, 2>>) = {<<0, 0>>, <<0, 1>>}

\* Some row, column or diagonal shows three tops of one player.
shows_line(st) ==
    \E i \in 1..Len(WINNING_LINES), p \in Player :
        LineOwnedBy(st, WINNING_LINES[i], p)

\* C28: a move of generate_moves is always placed, and after the placement
\* apply_move_in_place returns a winner exactly when some line shows three
\* tops of one player, leaving the side to move as it was; otherwise it
\* returns Ongoing and the opponent is to move.  It never returns a draw,
\* whatever the move.
ApplyResultLaw ==
    (last_op[1] \in {"apply", "apply_basic"} /\ Len(undo_stack) > 0) =>
        LET undo == undo_stack[Len(undo_stack)]
            before == snapshots[Len(snapshots)]
        IN  /\ result \in {ONGOING, PLAYER_ONE_WINS, PLAYER_TWO_WINS}
            /\ last_op[1] = "apply" => undo.move_completed
            /\ undo.move_completed =>
                  /\ (result # ONGOING) <=> shows_line(state)
                  /\ result # ONGOING =>
                        state.current_player = before.current_player
                  /\ result = ONGOING =>
                        state.current_player
                           = opponent(before.current_player)

\* A generated slide has just won: the mover is still to move.
ApplyResultLawWitness ==
    /\ last_op[1] = "apply"
    /\ Len(undo_stack) > 0
    /\ undo_stack[Len(undo_stack)].move_completed
    /\ ~is_from_reserve(undo_stack[Len(undo_stack)].move)
    /\ result # ONGOING
    /\ shows_line(state)
    /\ state.current_player = snapshots[Len(snapshots)].current_player

\* C30: a move of generate_moves that has just been applied gives the same
\* under every board symmetry: the transformed move is a move of
\* generate_moves for the transformed position, apply_move_in_place returns
\* the same game result for it, and the position it leaves has the same
\* canonical key.
MoveResultsCommute ==
    (last_op[1] = "apply" /\ Len(undo_stack) > 0) =>
        LET before == snapshots[Len(snapshots)]
            move == undo_stack[Len(undo_stack)].move
        IN  \A i \in 1..8 :
               LET seen == transform_state(i, before)
                   applied == apply_move_in_place(seen, transform_move(i, move))
               IN  /\ in_seq(transform_move(i, move), generate_moves(seen))
                   /\ applied.result = result
                   /\ canonical_of(applied.state) = canonical_of(state)

\* The lift of the last applied move exposed a line of the opponent.
lift_revealed ==
    LET before == snapshots[Len(snapshots)]
        move == undo_stack[Len(undo_stack)].move
    IN  /\ ~is_from_reserve(move)
        /\ Len(get_winning_lines(remove_top(before, move.from_pos),
                                 opponent(before.current_player))) > 0

\* C31: apply_move_in_place completes every move of generate_moves: the
\* UndoInfo says so and the moved piece is the top of its destination, so
\* the reveal-loss branch is not taken.
GeneratedMoveCompleted ==
    (last_op[1] = "apply" /\ Len(undo_stack) > 0) =>
        LET undo == undo_stack[Len(undo_stack)]
        IN  /\ undo.move_completed
            /\ get_top(state, undo.move.to_pos) = undo.piece

\* A generated slide whose lift exposed a line of the opponent has been
\* completed.
GeneratedMoveCompletedWitness ==
    /\ last_op[1] = "apply"
    /\ Len(undo_stack) > 0
    /\ lift_revealed
    /\ undo_stack[Len(undo_stack)].move_completed

(* ---------- the value of a position under optimal play ---------- *)

\* What the moves of generate_moves lead to.
successors(st) ==
    LET moves == generate_moves(st)
    IN  {apply_move_in_place(st, moves[i]) : i \in 1..Len(moves)}

\* The positions one move away in which the game goes on, each with its
\* canonical key.
ongoing_children(st) ==
    {<< canonical_of(applied.state), applied.state >> :
        applied \in {a \in successors(st) : a.result = ONGOING}}

\* The outcomes of the moves that end the game.
ending_outcomes(st) ==
    {game_result_to_outcome(applied.result) :
        applied \in {a \in successors(st) : a.result # ONGOING}}

\* The positions reachable while the game goes on, one per canonical key, as
\* pairs << key, position >>.
RECURSIVE reachable_positions(_, _)
reachable_positions(seen, frontier) ==
    IF frontier = {} THEN seen
    ELSE LET children == UNION {ongoing_children(pair[2]) : pair \in frontier}
             new_keys == {pair[1] : pair \in children}
                         \ {pair[1] : pair \in seen}
             fresh == {CHOOSE pair \in children : pair[1] = k : k \in new_keys}
         IN  reachable_positions(seen \cup fresh, fresh)

loss_of(player) == IF player = ONE THEN WIN_P2 ELSE WIN_P1

win_of(player) == IF player = ONE THEN WIN_P1 ELSE WIN_P2

\* One round of backward induction: a position not yet decided is won by
\* its mover when a move wins at once or leads to a position the mover has
\* won, and lost when there is no move or every move loses.
reference_step(nodes, label) ==
    [k \in DOMAIN nodes |->
        IF label[k] # DRAW THEN label[k]
        ELSE LET node == nodes[k]
                 outcomes == node.ends \cup {label[c] : c \in node.kids}
             IN  IF win_of(node.player) \in outcomes THEN win_of(node.player)
                 ELSE IF outcomes \subseteq {loss_of(node.player)}
                 THEN loss_of(node.player)
                 ELSE DRAW]

RECURSIVE reference_labels(_, _)
reference_labels(nodes, label) ==
    LET next == reference_step(nodes, label)
    IN  IF next = label THEN label ELSE reference_labels(nodes, next)

\* The value of every position reachable from root: the forced wins found
\* by backward induction; every other position is a draw, each side being
\* able to keep the play going or to repeat a position.
reference_values(root) ==
    LET start == << canonical_of(root), root >>
        pairs == reachable_positions({start}, {start})
        keys == {pair[1] : pair \in pairs}
        nodes == [k \in keys |->
                    LET st == (CHOOSE pair \in pairs : pair[1] = k)[2]
                    IN  [player |-> st.current_player,
                         ends |-> ending_outcomes(st),
                         kids |-> {pair[1] : pair \in ongoing_children(st)}]]
    IN  reference_labels(nodes, [k \in keys |-> DRAW])

reference_value(root) == reference_values(root)[canonical_of(root)]

(* ---------- properties of the solver ---------- *)

\* C2: when solve(root) has returned, what it returned is the value of root
\* under optimal play by both sides: three in a row wins, a mover without a
\* legal move loses, and play that repeats a position is a draw.
SolveReturnsValue ==
    (pc = "idle" /\ solves > 0) => returned = << reference_value(root_state) >>

\* C3: no write to the transposition table, in any solve() on the same
\* Solver, replaces the outcome stored for a key by a different one.
NoRewrite == rewritten = {}

\* C4: two finished solves of the same root from the same starting table,
\* one with pruning and one without, returned the same outcome and left the
\* same outcome for every key both tables hold.
PruningEquivalence ==
    \A i, j \in 1..Len(archive) :
        (/\ archive[i].root = archive[j].root
         /\ archive[i].start = archive[j].start
         /\ archive[i].force = archive[j].force
         /\ archive[i].prune
         /\ ~archive[j].prune)
        => /\ archive[i].returned = archive[j].returned
           /\ \A k \in DOMAIN archive[i].table \cap DOMAIN archive[j].table :
                 archive[i].table[k] = archive[j].table[k]

\* C6: at the top of every loop iteration the path set is exactly the set
\* of the canonical keys of the frames on the stack, and it has as many
\* keys as the stack has frames, so no key is on the stack twice.
PathSetIsStack ==
    pc = "loop" =>
        /\ path_set = {stack[i].canonical : i \in 1..Len(stack)}
        /\ Cardinality(path_set) = Len(stack)

\* Frames have been pushed three deep, frames have been popped and a child
\* on the path has been taken as a repetition.
PathSetIsStackWitness ==
    /\ pc = "loop"
    /\ Len(stack) >= 3
    /\ stats.positions_evaluated > 0
    /\ stats.cycle_draws > 0

no_legal_move(st) == Len(generate_moves(st)) = 0

\* C7: a position whose mover has no legal move is stored as a loss of the
\* mover (WIN_P2 with Player.ONE to move, WIN_P1 with Player.TWO to move),
\* never as a draw: as a child the loop has taken, where that loss is also
\* the outcome the parent collects, and as the root of a solve.
ZugzwangIsLoss ==
    /\ (pc = "loop" /\ Len(stack) > 0) =>
          LET frame == stack[Len(stack)]
          IN  \A i \in 1..Len(frame.child_outcomes) :
                 LET item == frame.moves[i]
                     child == apply_move_in_place(state, item.move).state
                 IN  (item.game_result = ONGOING /\ no_legal_move(child))
                     => /\ item.child_canonical \in DOMAIN table
                        /\ table[item.child_canonical]
                               = loss_of(child.current_player)
                        /\ frame.child_outcomes[i]
                               = loss_of(child.current_player)
    /\ \A i \in 1..Len(archive) :
          no_legal_move(archive[i].root)
          => /\ archive[i].returned = loss_of(archive[i].root.current_player)
             /\ archive[i].table[canonical_of(archive[i].root)]
                    = loss_of(archive[i].root.current_player)

\* A solve of a root without a legal move has returned, and the loop of
\* another solve has taken a child whose mover has no legal move.
ZugzwangIsLossWitness ==
    /\ \E i \in 1..Len(archive) : no_legal_move(archive[i].root)
    /\ pc = "loop"
    /\ Len(stack) > 0
    /\ LET frame == stack[Len(stack)]
       IN  \E i \in 1..Len(frame.child_outcomes) :
              /\ frame.moves[i].game_result = ONGOING
              /\ no_legal_move(
                     apply_move_in_place(state, frame.moves[i].move).state)

\* The legal moves of a position whose child outcome is known: the move
\* ends the game or the child is in the table.
known_moves(tbl, st) ==
    LET moves == generate_moves(st)
    IN  {i \in 1..Len(moves) : child_outcome_of(tbl, st, moves[i]) # None}

\* C23: get_best_move is None when no legal move has a known child outcome
\* (none at all when there is no legal move); otherwise it is a legal move
\* with a known child outcome together with that outcome, which is the
\* largest (Player.ONE to move) or the smallest (Player.TWO to move) of the
\* known child outcomes, the result of a move that ends the game counting
\* as known.
BestMoveIsOptimum ==
    pc = "answered" =>
        LET moves == generate_moves(state)
            known == known_moves(table, state)
            best == answer[2]
        IN  IF known = {} THEN best = None
            ELSE /\ best # None
                 /\ \E i \in known :
                       /\ moves[i] = best[1]
                       /\ child_outcome_of(table, state, moves[i])[1] = best[2]
                 /\ \A j \in known :
                       LET other == child_outcome_of(table, state, moves[j])[1]
                       IN  IF state.current_player = ONE THEN other <= best[2]
                           ELSE other >= best[2]

\* Player.ONE was to move in a position with a move that ends the game, a
\* child in the table and one outside it; a known child outcome is worse
\* than the one returned.
BestMoveIsOptimumWitness ==
    /\ pc = "answered"
    /\ state.current_player = ONE
    /\ LET moves == generate_moves(state)
           known == known_moves(table, state)
       IN  /\ known # {}
           /\ \E i \in 1..Len(moves) : i \notin known
           /\ \E i \in known : play_move(state, moves[i])[2] # ONGOING
           /\ \E i \in known : play_move(state, moves[i])[2] = ONGOING
           /\ \E i \in known :
                 child_outcome_of(table, state, moves[i])[1] < answer[2][2]

\* Solves i and j > i of the archive ran on the same Solver: each solve
\* from i + 1 to j started from the table the one before it left.
same_solver(i, j) ==
    \A k \in i..(j - 1) : archive[k + 1].start = archive[k].table

reachable_keys(root) ==
    LET start == << canonical_of(root), root >>
    IN  {pair[1] : pair \in reachable_positions({start}, {start})}

\* C26: when solve(prune=False, force=True) has returned on the table an
\* earlier pruned solve of the same root left, the table has an entry for
\* every position reachable from the root in which the game goes on.
UnprunedCoversReachable ==
    \A j \in 2..Len(archive) :
        (/\ archive[j - 1].prune
         /\ ~archive[j].prune
         /\ archive[j].force
         /\ archive[j].root = archive[j - 1].root
         /\ archive[j].start = archive[j - 1].table)
        => reachable_keys(archive[j].root) \subseteq DOMAIN archive[j].table

\* The loop is about to take a child of the top frame.
child_pending ==
    /\ pc = "loop"
    /\ Len(stack) > 0
    /\ prune_cursor(stack[Len(stack)], state.current_player, prune)
          < Len(stack[Len(stack)].moves)

\* The child it takes.
pending_child ==
    LET frame == stack[Len(stack)]
    IN  frame.moves[prune_cursor(frame, state.current_player, prune) + 1]

\* C27: the loop checks the child it takes in this order.  A child whose key
\* is in the path set contributes Draw and is not descended into, even when
\* the table has an entry for the key; otherwise a child whose key is in the
\* table contributes the stored outcome; otherwise a child that ends the
\* game contributes the outcome of its game result; only otherwise is the
\* move applied, a frame pushed and the key added to the path set (a child
\* without a move gets no frame and contributes the loss stored for it).
ChildCheckOrder ==
    [][child_pending =>
         LET depth == Len(stack)
             item == pending_child
             key == item.child_canonical
             outcomes == stack[depth].child_outcomes
         IN  IF key \in path_set
             THEN /\ Len(stack') = depth
                  /\ stack'[depth].child_outcomes = Append(outcomes, DRAW)
                  /\ UNCHANGED << path_set, state, table >>
             ELSE IF key \in DOMAIN table
             THEN /\ Len(stack') = depth
                  /\ stack'[depth].child_outcomes
                        = Append(outcomes, table[key])
                  /\ UNCHANGED << path_set, state, table >>
             ELSE IF item.game_result # ONGOING
             THEN /\ Len(stack') = depth
                  /\ stack'[depth].child_outcomes
                        = Append(outcomes,
                                 game_result_to_outcome(item.game_result))
                  /\ UNCHANGED << path_set, state >>
             ELSE \/ /\ Len(stack') = depth + 1
                     /\ stack'[depth + 1].canonical = key
                     /\ path_set' = path_set \cup {key}
                     /\ state' = apply_move_in_place(state, item.move).state
                  \/ /\ Len(stack') = depth
                     /\ generate_moves(
                           apply_move_in_place(state, item.move).state) = <<>>
                     /\ key \in DOMAIN table'
                     /\ stack'[depth].child_outcomes
                           = Append(outcomes, table'[key])
                     /\ UNCHANGED << path_set, state >>]_vars

\* A forced solve is about to take a child that leads back to the root: the
\* root is on the path and the table holds another outcome than Draw for it;
\* children have been taken from the table and frames have been pushed.
ChildCheckOrderWitness ==
    /\ child_pending
    /\ pending_child.child_canonical \in path_set
    /\ pending_child.child_canonical \in DOMAIN table
    /\ table[pending_child.child_canonical] # DRAW
    /\ stats.cache_hits > 0
    /\ Len(stack) > 2

\* The frame on top of the stack has just been created: no child of it has
\* been taken, and the table is the one its children were sorted with.
fresh_frame ==
    /\ pc = "loop"
    /\ Len(stack) > 0
    /\ stack[Len(stack)].move_idx = 0
    /\ stack[Len(stack)].child_outcomes = <<>>

\* The place of a child in the order of a frame of player: 0 for a stored
\* win of player, 1 for a stored draw, 2 for a stored loss, and unknown for a
\* child without an entry.
order_rank(tbl, key, player, unknown) ==
    IF key \notin DOMAIN tbl THEN unknown
    ELSE IF tbl[key] = win_of(player) THEN 0
    ELSE IF tbl[key] = DRAW THEN 1
    ELSE 2

ordered_by_rank(unknown) ==
    LET moves == stack[Len(stack)].moves
        rank(i) == order_rank(table, moves[i].child_canonical,
                              state.current_player, unknown)
    IN  \A i, j \in 1..Len(moves) : i < j => rank(i) <= rank(j)

WorkingPositionTracksTop ==
    /\ (pc = "loop" /\ Len(stack) > 0) =>
          canonical_of(state) = stack[Len(stack)].canonical
    /\ (pc = "idle" /\ solves > 0) => state = root_state

\* The loop is back at a frame below the top of an earlier moment: a child
\* frame has been popped and its move undone, and a child without a move has
\* been taken.
WorkingPositionTracksTopWitness ==
    /\ pc = "loop"
    /\ Len(stack) > 1
    /\ Len(stack) < stats.max_depth
    /\ stats.positions_evaluated > 0
    /\ stats.terminal_positions > 0
    /\ canonical_of(state) = stack[Len(stack)].canonical
    /\ state # root_state

\* A step of the loop of one solve.
loop_step == pc = "loop" /\ pc' = "loop"

\* C33: solve() terminates.  In the loop a key is pushed only when it is
\* neither on the path nor in the table, a popped key is in the table, no
\* key leaves the table, so no key is pushed twice; the cursor of a frame
\* that stays on the stack never goes back; and the loop is left with the
\* stack empty and solve() returns.
SolveTerminates ==
    /\ [][loop_step =>
            /\ DOMAIN table \subseteq DOMAIN table'
            /\ Len(stack') > Len(stack) =>
                  /\ Len(stack') = Len(stack) + 1
                  /\ stack'[Len(stack')].canonical \notin path_set
                  /\ stack'[Len(stack')].canonical \notin DOMAIN table
            /\ Len(stack') < Len(stack) =>
                  /\ Len(stack') = Len(stack) - 1
                  /\ stack[Len(stack)].canonical \in DOMAIN table'
            /\ \A d \in 1..Len(stack) :
                  d <= Len(stack') =>
                     /\ stack'[d].canonical = stack[d].canonical
                     /\ stack'[d].move_idx >= stack[d].move_idx
         ]_<< pc, stack, table, path_set >>
    /\ (pc = "loop") ~> (pc = "idle" /\ Len(stack) = 0)

\* A solve that pushed frames below the root, took repetition draws and
\* table entries, has returned.
SolveTerminatesWitness ==
    /\ pc = "idle"
    /\ solves > 0
    /\ Len(stack) = 0
    /\ stats.max_depth > 3
    /\ stats.cycle_draws > 0
    /\ stats.cache_hits > 0
    /\ stats.positions_evaluated > 5

CheckpointEachInterval ==
    (pc = "loop" /\ hook = "run_solver") =>
        stats.positions_evaluated - saved_at < report_interval

\* C38: in overnight_solve and unpruned_solve a first SIGINT or SIGTERM
\* received while the solve is running makes the solve stop gracefully before
\* it has run to completion, with a checkpoint of the table saved: once the
\* signal has been received, the next call of the progress hook leaves the
\* solve unfinished and the database holds every entry of the table.
FirstSignalStopsSolve ==
    [][(pc = "loop" /\ hook \in Scripts /\ shutdown_requested
            /\ reported_at' # reported_at)
          => /\ pc' = "exited"
             /\ archive' = archive
             /\ DOMAIN table' \subseteq DOMAIN db']_vars

\* C39: from the same root and the same starting table, solve with
\* fast=False and solve with fast=True return the same outcome and leave
\* transposition tables with the same keys and the same outcomes.
SolversAgree ==
    (pc = "idle" /\ Len(archive) = 2) =>
        /\ archive[1].returned = archive[2].returned
        /\ archive[1].table = archive[2].table

\* C40: after any sequence of make_move, undo, redo, goto, reset,
\* import_game and import_state requests, accepted or rejected,
\* 0 <= current_index < len(state_snapshots) and len(move_notations) ==
\* len(state_snapshots) - 1; and an accepted make_move keeps the history up
\* to the index it was made at, discards every later snapshot and notation
\* and appends its own, so that a redo right after it is rejected.
HistoryShape ==
    pc = "api" =>
        /\ 0 <= current_index
        /\ current_index < Len(state_snapshots)
        /\ Len(move_notations) = Len(state_snapshots) - 1
        /\ (request # None /\ request.op = "make_move"
                /\ response.status = 200) =>
              LET at == before_request.current_index
              IN  /\ current_index = at + 1
                  /\ Len(state_snapshots) = at + 2
                  /\ Len(move_notations) = at + 1
                  /\ SubSeq(state_snapshots, 1, at + 1) =
                         SubSeq(before_request.state_snapshots, 1, at + 1)
                  /\ SubSeq(move_notations, 1, at) =
                         SubSeq(before_request.move_notations, 1, at)
                  /\ api_redo(api_globals).response.status = 400

\* A move was accepted at an index below the end of the history.
HistoryShapeWitness ==
    /\ pc = "api"
    /\ request # None
    /\ request.op = "make_move"
    /\ response.status = 200
    /\ before_request.current_index <
           Len(before_request.state_snapshots) - 1

(* ---------- properties of robust_solve ---------- *)

\* C8: when a robust_solve run reaches its final checkpoint, which a second
\* signal brings about at any iteration of the solve, no outcome in the
\* table was computed from the repetition draw of a position that is still
\* unresolved on the search stack.
TableEntriesResolved ==
    (hook = "robust" /\ pc = "finally") =>
        \A k \in DOMAIN depends : depends[k] \cap path_set = {}

\* C9: once a shutdown has been requested, the solve loop pushes no further
\* child.
StopObservedAtNextIteration == hook = "robust" => ~pushed_after

\* C20: a periodic checkpoint write that fails does not end the solve: no
\* solve is left by the exception of a failed write.
FailedWriteContinues == hook = "robust" => interrupted # "Exception"

\* C34: when the force_checkpoint of a robust_solve run has returned, the
\* database holds every key of the table with the outcome the table holds
\* for it, and _saved_positions is the key set of the table.
CheckpointMirrorsTable ==
    (hook = "robust" /\ pc \in {"idle", "exited"} /\ solves > 0) =>
        /\ saved_positions = DOMAIN table
        /\ \A k \in DOMAIN table : k \in DOMAIN db /\ db[k] = table[k]

\* C35: however a robust_solve run ends, and whenever the signals arrive,
\* every key of the table is in the database when the run is over.
FinalCheckpointPersists ==
    (hook = "robust" /\ pc \in {"idle", "exited", "killed"} /\ solves > 0) =>
        DOMAIN table \subseteq DOMAIN db

(* ---------- properties of the checkpoint store ---------- *)

\* A load has been made since the last save, and the database was not
\* cleared in between.
loaded_after_save == last_save # None /\ last_load # None

\* C21: a load into a new Solver after a save returns the number of rows of
\* the database and yields every saved key with the outcome of that save
\* (the later outcome when the key was saved before) and the five saved
\* counters; the keys the database held before and the save did not have
\* are loaded too, with their old outcomes, so the load returns the number
\* of saved entries and yields exactly the saved table when the database
\* held no other key.  A load while no database exists returns 0 and leaves
\* the table empty.
SaveLoadRoundtrip ==
    /\ loaded_after_save =>
          /\ \A k \in DOMAIN last_save.table :
                k \in DOMAIN last_load.table
                /\ last_load.table[k] = last_save.table[k]
          /\ DOMAIN last_load.table =
                DOMAIN last_save.table \cup DOMAIN last_save.before
          /\ \A k \in DOMAIN last_save.before \ DOMAIN last_save.table :
                last_load.table[k] = last_save.before[k]
          /\ last_load.returned = Cardinality(DOMAIN last_load.table)
          /\ last_load.stats = last_save.stats
          /\ DOMAIN last_save.before \subseteq DOMAIN last_save.table =>
                /\ last_load.returned = last_save.returned
                /\ last_load.table = last_save.table
    /\ (last_load # None /\ metadata = None) =>
          last_load.returned = 0 /\ last_load.table = EmptyTable

\* A second save changed the outcome of a key and added a key, the counters
\* have several digits, and the load came after it.
SaveLoadRoundtripWitness ==
    /\ loaded_after_save
    /\ \E k \in DOMAIN last_save.before \cap DOMAIN last_save.table :
          last_save.before[k] # last_save.table[k]
    /\ DOMAIN last_save.table \ DOMAIN last_save.before # {}
    /\ DOMAIN last_save.before \subseteq DOMAIN last_save.table
    /\ last_save.stats.positions_evaluated = 1000
    /\ last_load.table = last_save.table

\* C21 as stated: after any save that succeeds, a load returns the number
\* of saved entries and yields the keys and outcomes of the saved table.
LoadYieldsSavedTable ==
    loaded_after_save =>
        /\ last_load.returned = last_save.returned
        /\ last_load.table = last_save.table
        /\ last_load.stats = last_save.stats

(* ---------- properties of a game played with play_move ---------- *)

same_position(a, b) ==
    /\ a.board = b.board
    /\ a.reserves = b.reserves
    /\ a.current_player = b.current_player

\* apply_move_in_place and play_move agree on a move: the same GameResult
\* and, when the move is completed, the same board, reserves and side to
\* move.
moves_agree(st, move) ==
    LET applied == apply_move_in_place(st, move)
        done == play_move(st, move)
    IN  /\ applied.result = done[2]
        /\ applied.undo.move_completed => same_position(applied.state, done[1])

\* play_move ends the game by repetition: the position after the move has
\* then been recorded three times.
repetition_draw(st, move) == play_move(st, move)[2] = DRAW_RESULT

turn_position(st) ==
    [st EXCEPT !.board = [pos \in Positions |-> st.board[<< 2 - pos[2], pos[1] >>]]]

\* The board mirrored left to right: the stack of (r, c) goes to (r, 2 - c).
mirror_position(st) ==
    [st EXCEPT !.board = [pos \in Positions |-> st.board[<< pos[1], 2 - pos[2] >>]]]

RECURSIVE turned(_, _)
turned(st, n) == IF n = 0 THEN st ELSE turned(turn_position(st), n - 1)

\* The eight images of a position under D4: n quarter turns, then a mirror
\* or not.
d4_images(st) ==
    {turned(st, n) : n \in 0..3} \cup {mirror_position(turned(st, n)) : n \in 0..3}

seq_set(seq) == {seq[i] : i \in 1..Len(seq)}

\* C12: every rotation or reflection of a position has the canonical value
\* of the position; that value is one of the eight encodings of the images
\* and none of them is smaller; and no transform changes the side-to-move
\* bit.
SymmetrySoundness ==
    pc = "walk" =>
        LET encoded == encode_state(state)
            canonical == canonicalize(encoded)
            images == {encode_state(q) : q \in d4_images(state)}
        IN  /\ \A q \in d4_images(state) : canonical_of(q) = canonical
            /\ canonical \in images
            /\ \A e \in images : ~encoded_less(e, canonical)
            /\ \A e \in seq_set(get_all_symmetries(encoded)) :
                  e[10] = encoded[10]
            /\ rotate_90(encoded)[10] = encoded[10]
            /\ reflect_horizontal(encoded)[10] = encoded[10]

\* A position reached by a move whose eight images are all different and
\* which is not its own canonical form, Player.TWO to move.
SymmetrySoundnessWitness ==
    /\ pc = "walk"
    /\ Cardinality({encode_state(q) : q \in d4_images(state)}) = 8
    /\ canonical_of(state) # encode_state(state)
    /\ state.current_player = TWO
    /\ last_op[1] = "apply"

\* C17: canonicalize is idempotent on every encoded value, and the eight
\* symmetries of an encoded value are closed under rotate_90 and
\* reflect_horizontal.
CanonicalIdempotent ==
    pc = "walk" =>
        LET syms == seq_set(get_all_symmetries(encode_state(state)))
        IN  \A e \in syms :
               /\ canonicalize(canonicalize(e)) = canonicalize(e)
               /\ rotate_90(e) \in syms
               /\ reflect_horizontal(e) \in syms
               /\ seq_set(get_all_symmetries(e)) = syms

\* A position with eight different symmetries, none of which the walk
\* holds in canonical form.
CanonicalIdempotentWitness ==
    /\ pc = "walk"
    /\ Cardinality(seq_set(get_all_symmetries(encode_state(state)))) = 8
    /\ canonicalize(encode_state(state)) # encode_state(state)
    /\ Len(undo_stack) = MaxPlies

(* ---------- properties of the positions of a game ---------- *)

\* The walk started from a position of a game and has applied only moves
\* generate_moves returned.
generated_play ==
    /\ pc = "walk"
    /\ start_position \in {GameState, DoubleReveal, SingleReveal}
    /\ \A i \in 1..Len(undo_stack) : undo_stack[i].move_completed

on_board(st, player, size) ==
    Cardinality({<< pos, i >> \in Positions \X (1..3) :
        i <= Len(st.board[pos]) /\ st.board[pos][i] = Piece(player, size)})

\* C13: for a position of a game, decode_state(encode_state(p)) is p (every
\* stack bottom to top, every reserve count, the side to move), and
\* encode_state(p) has bits 55..63 clear.
EncodeDecodeRoundtrip ==
    generated_play =>
        LET encoded == encode_state(state)
        IN  /\ decode_state(encoded).error = NoError
            /\ decode_state(encoded).state.board = state.board
            /\ decode_state(encoded).state.reserves = state.reserves
            /\ decode_state(encoded).state.current_player
                  = state.current_player
            /\ encoded[10] \in {0, 1}
            /\ encoded[11] = 0

\* A position two generated moves into the walk with a stack of two pieces,
\* a reserve that is used up and Player.TWO to move.
EncodeDecodeRoundtripWitness ==
    /\ generated_play
    /\ Len(undo_stack) = MaxPlies
    /\ \E pos \in Positions : Len(state.board[pos]) >= 2
    /\ \E p \in Player, s \in {SMALL, MEDIUM, LARGE} : state.reserves[p][s] = 0
    /\ state.current_player = TWO

\* C14: in every position of a game, after applied moves and after undos,
\* each reserve count plus the pieces of that player and size on the board
\* is 2 and each reserve count is in 0..2.
ReserveConservation ==
    generated_play =>
        \A p \in Player, s \in {SMALL, MEDIUM, LARGE} :
            /\ state.reserves[p][s] + on_board(state, p, s) = STARTING_PIECES
            /\ state.reserves[p][s] \in 0..STARTING_PIECES

\* A generated move has been applied on top of a placement from reserve and
\* undone again, in a position where a reserve is used up.
ReserveConservationWitness ==
    /\ generated_play
    /\ last_op[1] = "undo"
    /\ last_op[3] = "apply"
    /\ Len(undo_stack) > 0
    /\ is_from_reserve(undo_stack[Len(undo_stack)].move)
    /\ \E p \in Player, s \in {SMALL, MEDIUM, LARGE} :
          state.reserves[p][s] = 0 /\ on_board(state, p, s) = STARTING_PIECES

\* C15: in every position of a game each cell holds at most three pieces,
\* strictly increasing in size from bottom to top; the piece a slide lifted
\* is the top of its origin and the rest of the origin stays; and the winner
\* is decided by the tops alone.
StackOrdering ==
    generated_play =>
        /\ \A pos \in Positions :
              LET pieces == state.board[pos]
              IN  /\ Len(pieces) <= 3
                  /\ \A i \in 1..Len(pieces), j \in 1..Len(pieces) :
                        i < j => pieces[i].size < pieces[j].size
        /\ Len(undo_stack) > 0 =>
              LET undo == undo_stack[Len(undo_stack)]
                  before == snapshots[Len(snapshots)]
              IN  ~is_from_reserve(undo.move) =>
                     /\ undo.piece = get_top(before, undo.move.from_pos)
                     /\ state.board[undo.move.from_pos]
                            = get_stack(remove_top(before, undo.move.from_pos),
                                        undo.move.from_pos)
                     /\ get_top(state, undo.move.to_pos) = undo.piece
        /\ check_winner(state)
              = check_winner([state EXCEPT !.board =
                    [pos \in Positions |->
                        IF get_top(state, pos) = None THEN <<>>
                        ELSE << get_top(state, pos) >>]])

\* A slide has lifted the top of a stack of two, leaving the piece under
\* it, and landed on another piece.
StackOrderingWitness ==
    /\ generated_play
    /\ Len(undo_stack) > 0
    /\ LET undo == undo_stack[Len(undo_stack)]
           before == snapshots[Len(snapshots)]
       IN  /\ ~is_from_reserve(undo.move)
           /\ Len(before.board[undo.move.from_pos]) = 2
           /\ Len(state.board[undo.move.to_pos]) >= 2

\* C16: generate_moves has the placement of size s at cell C for the side
\* to move exactly when that side has a piece of size s in reserve and C is
\* empty or its top is smaller than s, whoever owns the top and whatever a
\* lift would reveal; on the empty board with Player.ONE to move it gives
\* 27 moves, all placements.
PlacementLaw ==
    pc = "walk" =>
        LET moves == generate_moves(state)
            player == state.current_player
        IN  /\ \A s \in {SMALL, MEDIUM, LARGE}, C \in Positions :
                  in_seq(Move(player, C, None, s), moves)
                  <=> /\ state.reserves[player][s] > 0
                      /\ \/ Len(state.board[C]) = 0
                         \/ s > state.board[C][Len(state.board[C])].size
            /\ \A i \in 1..Len(moves) :
                  is_from_reserve(moves[i]) =>
                     /\ moves[i].player = player
                     /\ \A j \in 1..Len(moves) : moves[j] = moves[i] => j = i
            /\ state = GameState =>
                  /\ Len(moves) = 27
                  /\ \A i \in 1..Len(moves) : is_from_reserve(moves[i])

\* The side to move has used up a size, can place on an opponent's piece,
\* cannot place on another occupied cell, and holds a top whose lift
\* reveals a line of the opponent.
PlacementLawWitness ==
    /\ pc = "walk"
    /\ Len(undo_stack) > 0
    /\ LET moves == generate_moves(state)
           player == state.current_player
       IN  /\ \E s \in {SMALL, MEDIUM, LARGE} : state.reserves[player][s] = 0
           /\ \E i \in 1..Len(moves) :
                 /\ is_from_reserve(moves[i])
                 /\ get_top(state, moves[i].to_pos) # None
                 /\ get_top(state, moves[i].to_pos).player = opponent(player)
           /\ \E s \in {SMALL, MEDIUM, LARGE}, C \in Positions :
                 /\ state.reserves[player][s] > 0
                 /\ ~in_seq(Move(player, C, None, s), moves)
           /\ \E pos \in Positions :
                 /\ get_top(state, pos) # None
                 /\ get_top(state, pos).player = player
                 /\ Len(get_winning_lines(remove_top(state, pos),
                                          opponent(player))) > 0

(* ---------- properties of the frontier enumeration ---------- *)

root_canonical == canonical_of(GameState)

\* The canonical positions one move of an unfinished game leads to from the
\* position a canonical value stands for.
canonical_children(canonical) ==
    LET st == decode_state(canonical).state
        moves == generate_moves(st)
        after(i) == apply_move_in_place(st, moves[i])
    IN  {canonical_of(after(i).state) :
            i \in {j \in 1..Len(moves) : after(j).result = ONGOING}}

children_of_all(layer) == UNION {canonical_children(c) : c \in layer}

\* Layer by layer from the root: the children of a layer that the table
\* misses get its depth plus one, the children the table holds make the
\* next layer.  Only positions met for the first time count.
RECURSIVE layer_depths(_, _, _, _, _, _)
layer_depths(tbl, layer, kids, met, depth, depths) ==
    LET fresh == kids \ met
        missing == fresh \ DOMAIN tbl
        held == fresh \cap DOMAIN tbl
        extended == [c \in DOMAIN depths \cup missing |->
                        IF c \in DOMAIN depths THEN depths[c] ELSE depth + 1]
    IN  IF layer = {} THEN depths
        ELSE layer_depths(tbl, held, children_of_all(held), met \cup fresh,
                          depth + 1, extended)

\* For every position the table misses that one or more moves reach from
\* the root with every position strictly between them in the table, the
\* fewest moves of such a route.
depths_through(tbl) ==
    layer_depths(tbl, {root_canonical}, canonical_children(root_canonical),
                 {root_canonical}, 0, EmptyDepths)

no_duplicates(seq) == \A i, j \in 1..Len(seq) : seq[i] = seq[j] => i = j

completed == pc = "bfs_returned" /\ exit_reason = "complete"

\* C11 (as the code has it): the root is expanded whether the table holds
\* it or not and is never recorded; when the enumeration runs to completion
\* the frontier map holds exactly the canonical positions of unfinished
\* games that the table misses and that one or more moves reach from the
\* root with every position strictly between them in the table.  At every
\* moment a recorded position has been neither enqueued nor expanded, no
\* recorded position has a winner, and no canonical has been recorded or
\* enqueued twice.
FrontierExact ==
    /\ completed => DOMAIN unsolved = DOMAIN depths_through(table)
    /\ DOMAIN unsolved = seq_set(recorded)
    /\ seq_set(recorded) \cap (seq_set(enqueued) \cup seq_set(expanded)) = {}
    /\ \A c \in seq_set(recorded) : check_winner(decode_state(c).state) = NoPlayer
    /\ no_duplicates(recorded \o enqueued)
    /\ root_canonical \notin DOMAIN unsolved

\* A completed enumeration whose table holds the root and two positions
\* after it: three entries were expanded and positions were recorded.
FrontierExactWitness ==
    /\ completed
    /\ root_canonical \in DOMAIN table
    /\ Len(expanded) >= 3
    /\ Len(recorded) >= 20

\* The positions a move sequence from the root reaches by passing only
\* through positions of the table, the root being the first of them: the
\* root alone when the table misses it.
claimed_frontier(tbl) ==
    IF root_canonical \in DOMAIN tbl THEN DOMAIN depths_through(tbl)
    ELSE {root_canonical}

\* C11 (as the claim has it): when the enumeration runs to completion the
\* frontier map holds exactly the positions of unfinished games that the
\* table misses and that a move sequence from the root reaches by passing
\* only through positions of the table.
FrontierAsClaimed == completed => DOMAIN unsolved = claimed_frontier(table)

Route1 == canonical_children(root_canonical)

Route2 == children_of_all(Route1)

\* The lengths of the routes of up to two moves that reach a position.
routes_to(c, one_move, two_moves) ==
    (IF c = root_canonical THEN {0} ELSE {})
    \cup (IF c \in one_move THEN {1} ELSE {})
    \cup (IF c \in two_moves THEN {2} ELSE {})

no_shorter_route(depths, one_move, two_moves) ==
    \A c \in DOMAIN depths :
        \A n \in routes_to(c, one_move, two_moves) : depths[c] <= n

stopped_early == pc = "bfs_returned" /\ exit_reason \in {"stop", "timeout"}

\* The position the enumeration works on when no move is applied: the one
\* decoded from the entry dequeued last, the initial one before the first.
expanding_position ==
    IF Len(expanded) = 0 THEN GameState
    ELSE decode_state(expanded[Len(expanded)]).state

\* C25: the frontier map returned after a stop by the stop flag or by the
\* timeout is part of the map of a run to completion on the same table,
\* every entry with the same depth; and whenever the loop is at its top,
\* where the stop is observed, every move applied to the working position
\* has been undone.
PartialFrontierIntact ==
    /\ stopped_early =>
          LET depths == depths_through(table)
          IN  \A c \in DOMAIN unsolved :
                 c \in DOMAIN depths /\ unsolved[c] = depths[c]
    /\ pc \in {"bfs", "bfs_returned"} => state = expanding_position

\* The stop flag ended a run that had recorded positions of two depths and
\* had entries left in its queue, short of the complete frontier.
PartialFrontierIntactWitness ==
    /\ stopped_early
    /\ exit_reason = "stop"
    /\ Len(queue) > 0
    /\ \E c, d \in DOMAIN unsolved : unsolved[c] # unsolved[d]
    /\ DOMAIN unsolved # DOMAIN depths_through(table)

(* ---------- properties of the API ---------- *)

\* The 2-bit slot of a size (1 small, 2 medium, 3 large) in a cell group.
slot_of(cell_bits, size) ==
    IF size = SMALL THEN cell_bits % 4
    ELSE IF size = MEDIUM THEN (cell_bits \div 4) % 4
    ELSE (cell_bits \div 16) % 4

\* An encoded value that is the encoding of no position: a slot holding 3,
\* a bit set among 55..63, or more than STARTING_PIECES pieces of one
\* player and size.
violates_invariants(encoded) ==
    \/ \E k \in 1..9, size \in {SMALL, MEDIUM, LARGE} :
          slot_of(encoded[k], size) = 3
    \/ encoded[10] >= 2
    \/ encoded[11] # 0
    \/ \E p \in Player, size \in {SMALL, MEDIUM, LARGE} :
          Cardinality({k \in 1..9 : slot_of(encoded[k], size) = p})
              > STARTING_PIECES

\* C18: decoding a value that violates the position invariants fails, the
\* import answers 400 and leaves the game as it was; and decode_state
\* returns no position with a reserve count outside 0..2.
DecodeRejectsInvalid ==
    (request # None /\ request.op = "import_state") =>
        LET done == decode_state(request.arg)
        IN  /\ violates_invariants(request.arg) =>
                  /\ done.error # NoError
                  /\ response.status = 400
                  /\ api_globals = before_request
            /\ done.error = NoError =>
                  \A p \in Player, size \in {SMALL, MEDIUM, LARGE} :
                      done.state.reserves[p][size] \in 0..STARTING_PIECES

\* C19: a request that fails because a move is not among the generated
\* moves of its position, in make_move or inside the notations of
\* import_game, leaves the game, the snapshots, the notations and the
\* current index as they were before the request.
IllegalMoveNoChange ==
    (response # None /\ response.status = 400
        /\ response.detail = "Illegal move")
    => api_globals = before_request

====
